---- MODULE Spec2Model ----
(***************************************************************************)
(* Model of the agentic reasoning runtime: the ReasoningEngine.solve loop  *)
(* (core/reasoning/engine.py) over the ConversationManager                 *)
(* (core/reasoning/conversation.py) and the ReasoningChain                 *)
(* (core/reasoning/models.py), the HTTP scope of the provider adapters    *)
(* (core/llm/base.py and the four providers), a ConversationManager used   *)
(* on its own, and the ToolExecutor (core/tools/executor.py) over          *)
(* BaseTool.safe_execute (core/tools/base.py).                             *)
(*                                                                         *)
(* Strings are sequences of one-character strings.  Optional[str] is a     *)
(* record [some, text]; None is NoneVal.                                   *)
(***************************************************************************)
EXTENDS Integers, Sequences, FiniteSets, TLC

\* ------------------------------------------------------------------ bounds
MaxIterations == 2
MaxToolCap == 2
MaxCallsPerTurn == 4
MaxHttp == 3
MaxConvOps == 3
MaxMsgCap == 2
MaxTokenCap == 2
MaxExecCalls == 3
MaxBatch == 2
\* the history cap, ToolExecutor._max_history_size; executor.py:50 sets it to
\* 1000, the model explores the same code with a small cap
max_history_size == 2

\* ------------------------------------------------------- program constants
\* engine.py:99  max_messages = self.config.max_iterations * 4
TrimFactor == 4
\* conversation.py:184  total_chars // 4
CharsPerToken == 4
\* tools/base.py:85  ThreadPoolExecutor(max_workers=4)
max_workers == 4

\* ------------------------------------------------------------- Optional[str]
NoneVal == [some |-> FALSE, text |-> <<>>]

Some(t) == [some |-> TRUE, text |-> t]

\* Python truthiness of an Optional[str]: None and "" are falsy
Truthy(o) == o.some /\ o.text # <<>>

\* ------------------------------------------------------------ str helpers
\* str.lower() on the modelled alphabet
LowerChar(c) == IF c = "F" THEN "f" ELSE IF c = "A" THEN "a" ELSE c

Lower(s) == [i \in 1..Len(s) |-> LowerChar(s[i])]

RECURSIVE LStrip(_)
LStrip(s) == IF s # <<>> /\ Head(s) = " " THEN LStrip(Tail(s)) ELSE s

RECURSIVE RStrip(_)
RStrip(s) == IF s # <<>> /\ s[Len(s)] = " " THEN RStrip(SubSeq(s, 1, Len(s) - 1)) ELSE s

\* str.strip()
Strip(s) == RStrip(LStrip(s))

\* positions at which sub occurs in s (1-based)
Occurrences(sub, s) == {i \in 1..(Len(s) - Len(sub) + 1) : SubSeq(s, i, i + Len(sub) - 1) = sub}

\* `sub in s`
Contains(sub, s) == Occurrences(sub, s) # {}

\* s.index(sub), 1-based; only used when Contains(sub, s)
IndexOf(sub, s) == CHOOSE i \in Occurrences(sub, s) : \A j \in Occurrences(sub, s) : i <= j

\* conversation.py:256  the separators removed after the phrase, in this order
AnswerPrefixes == <<"-", ":", "FWCOLON", "EMDASH">>

RECURSIVE RemovePrefixes(_, _)
RemovePrefixes(answer, k) ==
    IF k > Len(AnswerPrefixes) THEN answer
    ELSE IF answer # <<>> /\ Head(answer) = AnswerPrefixes[k]
         THEN RemovePrefixes(Strip(Tail(answer)), k + 1)
         ELSE RemovePrefixes(answer, k + 1)

RECURSIVE ExtractFrom(_, _, _)
ExtractFrom(text, phrases, k) ==
    IF k > Len(phrases) THEN NoneVal
    ELSE IF Contains(Lower(phrases[k]), Lower(text))
         THEN LET pos == IndexOf(Lower(phrases[k]), Lower(text))
                  answer == Strip(SubSeq(text, pos + Len(phrases[k]), Len(text)))
              IN  Some(RemovePrefixes(answer, 1))
         ELSE ExtractFrom(text, phrases, k + 1)

\* extract_final_answer(text, stop_phrases)
extract_final_answer(text, phrases) == ExtractFrom(text, phrases, 1)

\* ReasoningConfig.stop_phrases: "Final Answer:" and "答案：" shortened to two characters each
StopPhrases == << <<"F", ":">>, <<"A", "FWCOLON">> >>

\* assistant texts the provider may return (None, plain text, phrase with an
\* answer, phrase in another case followed by a separator, phrase with
\* nothing after it)
ProviderTexts ==
    { NoneVal,
      Some(<<"x">>),
      Some(<<"F", ":", " ", "x">>),
      Some(<<"x", " ", "f", ":", "-", "x">>),
      Some(<<"F", ":">>) }

\* ------------------------------------------------------------- messages
NoId == <<>>

Msg(role, content, tool_calls, tool_call_id) ==
    [role |-> role, content |-> content, tool_calls |-> tool_calls, tool_call_id |-> tool_call_id]

IsSystem(m) == m.role = "system"

IsNotSystem(m) == m.role # "system"

RECURSIVE SumLen(_, _)
SumLen(tcs, k) ==
    IF k > Len(tcs) THEN 0
    ELSE Len(tcs[k].name) + Len(tcs[k].arguments) + SumLen(tcs, k + 1)

RECURSIVE TotalChars(_, _)
TotalChars(msgs, k) ==
    IF k > Len(msgs) THEN 0
    ELSE (IF msgs[k].content.some THEN Len(msgs[k].content.text) ELSE 0)
         + SumLen(msgs[k].tool_calls, 1) + TotalChars(msgs, k + 1)

\* ConversationManager._estimate_tokens
estimate_tokens(msgs) == TotalChars(msgs, 1) \div CharsPerToken

RECURSIVE TrimTokens(_, _, _)
TrimTokens(system_msgs, other_msgs, max_tokens) ==
    IF estimate_tokens(system_msgs \o other_msgs) > max_tokens /\ Len(other_msgs) > 1
    THEN TrimTokens(system_msgs, Tail(other_msgs), max_tokens)
    ELSE other_msgs

\* the slice taken from the front: the oldest messages are kept
LastN_oldest(s, n) == SubSeq(s, 1, n)

\* other_msgs[-max_messages:]
LastN(s, n) == SubSeq(s, Len(s) - n + 1, Len(s))

\* ConversationManager._trim_history; a cap of 0 stands for None (not configured)
trim_history(msgs, max_messages, max_tokens) ==
    IF max_messages = 0 /\ max_tokens = 0 THEN msgs
    ELSE LET system_msgs == SelectSeq(msgs, IsSystem)
             others == SelectSeq(msgs, IsNotSystem)
             counted == IF max_messages # 0 /\ Len(others) > max_messages
                        THEN LastN(others, max_messages) ELSE others
             trimmed == IF max_tokens # 0
                        THEN TrimTokens(system_msgs, counted, max_tokens) ELSE counted
         IN  system_msgs \o trimmed

\* ConversationManager.add_system_message (no trimming)
add_system_message(msgs, content) ==
    <<Msg("system", Some(content), <<>>, NoId)>> \o SelectSeq(msgs, IsNotSystem)

\* ConversationManager.add_message and the add_* wrappers: append, then trim
add_message(msgs, m, max_messages, max_tokens) ==
    trim_history(Append(msgs, m), max_messages, max_tokens)

add_user_message(msgs, content, max_messages, max_tokens) ==
    add_message(msgs, Msg("user", Some(content), <<>>, NoId), max_messages, max_tokens)

add_assistant_message(msgs, content, tool_calls, max_messages, max_tokens) ==
    add_message(msgs, Msg("assistant", content, tool_calls, NoId), max_messages, max_tokens)

\* the error text of a failed call kept out of the log
add_tool_result_unlessError(msgs, tool_call_id, content, max_messages, max_tokens) ==
    IF content = <<"X">> THEN msgs
    ELSE add_message(msgs, Msg("tool", Some(content), <<>>, tool_call_id),
                     max_messages, max_tokens)

\* ConversationManager.add_tool_result
add_tool_result(msgs, tool_call_id, content, max_messages, max_tokens) ==
    add_message(msgs, Msg("tool", Some(content), <<>>, tool_call_id), max_messages, max_tokens)

\* ------------------------------------------------------------------ state
VARIABLES
    max_iterations,      \* ReasoningConfig.max_iterations
    max_tool_calls,      \* ReasoningConfig.max_tool_calls
    adapter,             \* how the provider adapter obtains tool-call ids
    pc,                  \* position of solve
    iteration,           \* the for-loop variable of solve
    iterations_done,     \* loop bodies that ran to their end (or to the break of line 174)
    steps,               \* chain.steps
    chain_status,        \* chain.status
    final_answer,        \* chain.final_answer
    completed_at,        \* chain.completed_at is set
    stop_reason,         \* local stop_reason of solve
    error_msg,           \* local error_msg of solve
    local_final_answer,  \* local final_answer of solve (unbound until first assigned)
    conv,                \* conversation.messages
    turn_calls,          \* tool_calls of the assistant message being handled
    call_idx,            \* index of the tool call being handled
    provider_requests,   \* number of llm_provider.complete calls issued
    last_request,        \* messages of the last LLMRequest submitted
    next_backend_id,     \* next id a backend that supplies ids will hand out
    last_content,        \* assistant text of the last provider response
    result,              \* the ReasoningResult returned by solve
    callback,            \* ReasoningEngine.step_callback: none, or what the callable does
    notified,            \* the steps the callback was called with, in call order
    notify_escaped,      \* an exception of the callback left _notify_step
    provider_failure,    \* how a provider request of solve failed, and how many were made by then
    provider,            \* adapter class whose HTTP scope is exercised
    session,             \* BaseLLMProvider.session: none, open or closed
    http_sent,           \* HTTP requests actually posted
    last_call,           \* the last complete/stream_complete call and its outcome
    deadline_passed,     \* config.timeout seconds have gone by since solve started
    cm_system_message,   \* ConversationManager.system_message (constructor argument)
    cm_max_messages,     \* ConversationManager.max_messages (0 = None)
    cm_max_tokens,       \* ConversationManager.max_tokens (0 = None)
    cm_messages,         \* ConversationManager.messages
    cm_appended,         \* non-system messages appended since the log was last emptied
    cm_last_op,          \* the last ConversationManager operation and the log before it
    cm_serial,           \* number of messages handed to the manager so far
    exec_history,        \* ToolExecutor._execution_history
    exec_log,            \* every record made since the history was last cleared
    exec_serial,         \* number of execute_tool calls started so far
    exec_tasks,          \* the execute_tool calls of the running execute_multiple
    exec_parallel,       \* the parallel argument of the running execute_multiple
    exec_order,          \* indices of the calls in the order they completed
    exec_returned,       \* what the last execute_multiple or execute_from_llm_call
                         \* returned, with its input
    fs_tree,             \* the filesystem: existing files and directories by real path
    fs_link,             \* where the symlink <workspace>/l points
    fs_allow_delete,     \* FileOperationsTool.allow_delete
    fs_last,             \* the last FileOperationsTool.execute call and its outcome
    sandbox,             \* the last CodeExecutorTool._execute_python call: its input and what it did
    calculator,          \* the last CalculatorTool.execute call: the parsed expression and the result
    conversion,          \* the last _convert_response call: the adapter, the usage of the backend response, the LLMUsage
    manager,             \* LLMProviderManager: _providers, _default_provider, and the last call made on it
    registry,            \* ToolRegistry: _tools, _categories, and the last call made on it
    streaming,           \* one fixture answered by an adapter both ways: the stream chunks and the non-stream content
    shared,              \* an adapter instance used by several tasks
    pool                 \* the ThreadPoolExecutor of one tool and its invocations

engine_vars == <<max_iterations, max_tool_calls, adapter, pc, iteration, iterations_done,
                 steps, chain_status, final_answer, completed_at, stop_reason, error_msg,
                 local_final_answer, conv, turn_calls, call_idx, provider_requests,
                 last_request, next_backend_id, last_content, result,
                 callback, notified, notify_escaped, provider_failure>>

scope_vars == <<provider, session, http_sent, last_call>>

env_vars == <<deadline_passed>>

conv_vars == <<cm_system_message, cm_max_messages, cm_max_tokens, cm_messages, cm_appended,
               cm_last_op, cm_serial>>

exec_vars == <<exec_history, exec_log, exec_serial, exec_tasks, exec_parallel, exec_order,
               exec_returned>>

files_vars == <<fs_tree, fs_link, fs_allow_delete, fs_last>>

more_vars == <<files_vars, sandbox, calculator, conversion, manager, registry, streaming, shared, pool>>

base_vars == <<engine_vars, scope_vars, env_vars, conv_vars, exec_vars>>

rest_vars == <<env_vars, conv_vars, exec_vars, more_vars>>

vars == <<engine_vars, scope_vars, rest_vars>>

\* what each of the subsystems below leaves alone
BesideFiles == <<base_vars, sandbox, calculator, conversion, manager, registry, streaming, shared, pool>>
BesideSandbox == <<base_vars, files_vars, calculator, conversion, manager, registry, streaming, shared, pool>>
BesideCalculator == <<base_vars, files_vars, sandbox, conversion, manager, registry, streaming, shared, pool>>
BesideConversion == <<base_vars, files_vars, sandbox, calculator, manager, registry, streaming, shared, pool>>
BesideManager == <<base_vars, files_vars, sandbox, calculator, conversion, registry, streaming, shared, pool>>
BesideRegistry == <<base_vars, files_vars, sandbox, calculator, conversion, manager, streaming, shared, pool>>
BesideStreaming == <<base_vars, files_vars, sandbox, calculator, conversion, manager, registry, shared, pool>>
BesideShared == <<base_vars, files_vars, sandbox, calculator, conversion, manager, registry, streaming, pool>>
BesidePool == <<base_vars, files_vars, sandbox, calculator, conversion, manager, registry, streaming, shared>>

\* ------------------------------------------------------------------ chain
Step(type, status, content, id) ==
    [step_type |-> type, status |-> status, content |-> content, tool_call_id |-> id]

IsToolCallStep(s) == s.step_type = "tool_call"

IsAnswerStep(s) == s.step_type = "answer"

\* ReasoningChain.get_tool_calls_count
get_tool_calls_count(chain_steps) == Len(SelectSeq(chain_steps, IsToolCallStep))

\* ReasoningChain.is_complete
is_complete(status) == status \in {"completed", "failed"}

\* ReasoningEngine._check_stop_conditions
check_stop_conditions(chain_steps, status) ==
    IF get_tool_calls_count(chain_steps) >= max_tool_calls
    THEN [stop_reason |-> "max_tool_calls", should_stop |-> TRUE]
    ELSE IF is_complete(status)
         THEN [stop_reason |-> "completed", should_stop |-> TRUE]
         ELSE [stop_reason |-> "completed", should_stop |-> FALSE]

\* the loop bound taken one too far
LoopExhausted_offByOne(i) == i > max_iterations

\* for iteration in range(self.config.max_iterations): the range is used up
LoopExhausted(i) == i >= max_iterations

\* the finalization test inverted
FinalStatus_inverted(stop) == IF stop # "completed" THEN "completed" ELSE "failed"

\* engine.py:192  chain.status at finalization
FinalStatus(stop) == IF stop = "completed" THEN "completed" ELSE "failed"

\* ReasoningResult.from_chain: success
ResultSuccess(stop, err) == stop = "completed" /\ err = "none"

\* format_tool_result_for_llm: the text handed back to the LLM.  Whether the
\* ToolResult reports success or failure changes only this text, never the
\* control flow of the engine, so one text stands for both.
ToolResultText == <<"R">>

\* f"Tool execution failed: {str(e)}"
ToolErrorText == <<"X">>

\* ids the adapter's _convert_response gives to the k tool calls of one response:
\* passed through from the backend (OpenAI, Anthropic, Grok), or call_<part index>
\* with the text part, when present, before the function calls (Gemini)
ToolCallIds(kind, content, k, next_id) ==
    IF kind = "synthetic"
    THEN [j \in 1..k |-> <<"call", (IF content.some THEN 1 ELSE 0) + j - 1>>]
    ELSE [j \in 1..k |-> <<"bk", next_id + j - 1>>]

ToolCalls(ids) == [j \in 1..Len(ids) |-> [id |-> ids[j], name |-> <<"c">>, arguments |-> <<"{", "}">>]]

\* max_messages handed to the ConversationManager by solve
MaxMessages == max_iterations * TrimFactor

\* what the callback sees of a step: the step object without its status, which
\* line 258/294 changes after the call
StepIdent(s) == [step_type |-> s.step_type, content |-> s.content, tool_call_id |-> s.tool_call_id]

\* _notify_step without its try/except
notify_step_uncaught(cb, log, s) ==
    [log |-> IF cb = "none" THEN log ELSE Append(log, StepIdent(s)),
     escaped |-> cb = "raises"]

\* ReasoningEngine._notify_step, lines 374-380: the callback, when one is set,
\* is called with the step; its Exception is logged and goes no further
notify_step(cb, log, s) ==
    [log |-> IF cb = "none" THEN log ELSE Append(log, StepIdent(s)),
     escaped |-> FALSE]

RECURSIVE NotifyAll(_, _, _, _)
NotifyAll(cb, acc, new_steps, k) ==
    IF k > Len(new_steps) THEN acc
    ELSE LET r == notify_step(cb, acc.log, new_steps[k])
         IN  NotifyAll(cb, [log |-> r.log, escaped |-> acc.escaped \/ r.escaped], new_steps, k + 1)

\* every chain.add_step(step) is directly followed by self._notify_step(step)
\* (lines 141-142, 152-153, 187-188, 243-244, 282-283, 305-306): the steps a
\* handler appended are notified in the order they were appended
NotifyAppended ==
    LET r == NotifyAll(callback, [log |-> notified, escaped |-> notify_escaped],
                       SubSeq(steps', Len(steps) + 1, Len(steps')), 1)
    IN  /\ notified' = r.log
        /\ notify_escaped' = r.escaped

\* lines 190-201: finalize the chain and build the result
Finalize(stop, err, fa) ==
    /\ stop_reason' = stop
    /\ error_msg' = err
    /\ completed_at' = TRUE
    /\ chain_status' = FinalStatus(stop)
    /\ final_answer' = fa
    /\ result' = [returned |-> TRUE, success |-> ResultSuccess(stop, err),
                  stop_reason |-> stop, final_answer |-> fa, error |-> err]
    /\ pc' = "done"

\* the failures of llm_provider.complete that are not a timeout
ProviderErrors == {"http_error", "protocol_error"}

NoFailure == [kind |-> "none", requests |-> 0]

\* except Exception without the error step
FailWithError_noStep ==
    /\ steps' = steps
    /\ Finalize("error", "error", final_answer)

\* lines 180-188: except Exception -> ERROR, error step appended
FailWithError ==
    /\ steps' = Append(steps, Step("error", "failed", Some(<<"X">>), NoId))
    /\ Finalize("error", "error", final_answer)

NoResult == [returned |-> FALSE, success |-> FALSE, stop_reason |-> "none",
             final_answer |-> NoneVal, error |-> "none"]

ScopeIdle ==
    /\ provider = "openai"
    /\ session = "none"
    /\ http_sent = 0
    /\ last_call = [op |-> "none", scope |-> "none", outcome |-> "none", sent |-> FALSE]

\* solve has just started: the time limit of the chain has not yet gone by
EnvIdle == deadline_passed = FALSE

\* a ConversationManager that is not exercised
ConvIdle ==
    /\ cm_system_message = NoneVal
    /\ cm_max_messages = 0
    /\ cm_max_tokens = 0
    /\ cm_messages = <<>>
    /\ cm_appended = <<>>
    /\ cm_last_op = [op |-> "none", before |-> <<>>]
    /\ cm_serial = 0

NoBatch == [via |-> "none", calls |-> <<>>, parallel |-> FALSE, results |-> <<>>,
            raised |-> FALSE]

\* ToolExecutor.__init__: empty history, nothing running
ExecIdle ==
    /\ exec_history = <<>>
    /\ exec_log = <<>>
    /\ exec_serial = 0
    /\ exec_tasks = <<>>
    /\ exec_parallel = FALSE
    /\ exec_order = <<>>
    /\ exec_returned = NoBatch

\* paths are sequences of names from the filesystem root; <<>> is the root
WorkspaceRoot == <<"ws">>

\* the one symlink of the modelled filesystem, inside the workspace
LinkPath == <<"ws", "l">>

Node(kind, data) == [kind |-> kind, data |-> data]

\* an empty workspace (but for its symlink) next to a directory that holds a file
InitialTree ==
    [q \in {<<>>, <<"ws">>, <<"out">>, <<"out", "d">>} |->
        IF Len(q) = 2 THEN Node("file", "old") ELSE Node("dir", "none")]

\* a call of execute: the operation, whether its path resolves outside the
\* workspace and whether through the symlink, whether it asked to delete a
\* directory that has entries, and what came of it
FileOp(op, escapes, through_link, nonempty_dir, touched, touched_outside, success, changed) ==
    [op |-> op, escapes |-> escapes, through_link |-> through_link,
     nonempty_dir |-> nonempty_dir, touched |-> touched,
     touched_outside |-> touched_outside, success |-> success, changed |-> changed]

NoFileOp == FileOp("none", FALSE, FALSE, FALSE, FALSE, FALSE, FALSE, FALSE)

\* a FileOperationsTool that is not exercised
FilesIdle ==
    /\ fs_tree = InitialTree
    /\ fs_link = <<"out">>
    /\ fs_allow_delete = FALSE
    /\ fs_last = NoFileOp

\* a program of the sandbox is the sequence of its statements; of a statement
\* the model keeps the one node the screening looks at: its kind, the dotted
\* module name of an import as the sequence of its parts (<<>> for the missing
\* module of `from . import x`), the relative level, and the name imported,
\* called or accessed
Stmt(kind, module, level, name) ==
    [kind |-> kind, module |-> module, level |-> level, name |-> name]

\* a call of _execute_python: the code, whether it was run, how many of its
\* statements were started, the modules the program got hold of by its
\* imports, and the success flag of the ToolResult
Run(code, ran, executed, imported, success) ==
    [code |-> code, ran |-> ran, executed |-> executed, imported |-> imported,
     success |-> success]

\* a CodeExecutorTool that is not exercised
SandboxIdle == sandbox = [allow_imports |-> TRUE, run |-> Run(<<>>, FALSE, 0, {}, FALSE)]

\* a node of a parsed expression: its class, what it carries (the literal, the
\* identifier, the operator class or the called name) and its children
Expr(kind, op, args) == [kind |-> kind, op |-> op, args |-> args]

\* a call of CalculatorTool.execute: the expression, whether it was evaluated,
\* and the ToolResult: its success flag and the exception behind a failure
Evaluation(expression, evaluated, success, error) ==
    [expression |-> expression, evaluated |-> evaluated, success |-> success,
     error |-> error]

\* a CalculatorTool that is not exercised
CalculatorIdle == calculator = Evaluation(Expr("Constant", "0", <<>>), FALSE, FALSE, "none")

\* a key of the usage object of a backend response: present with a count, or
\* omitted
Count(n) == [present |-> TRUE, n |-> n]

Omitted == [present |-> FALSE, n |-> 0]

\* the usage object of a backend response under the names of the unified
\* model (`prompt_tokens`/`promptTokenCount`/`input_tokens`, ...); none when
\* the response has no usage object
BackendUsage(present, prompt, completion, total) ==
    [present |-> present, prompt |-> prompt, completion |-> completion, total |-> total]

\* LLMUsage of models/llm_models.py, or None
LLMUsage(prompt_tokens, completion_tokens, total_tokens) ==
    [none |-> FALSE, prompt_tokens |-> prompt_tokens,
     completion_tokens |-> completion_tokens, total_tokens |-> total_tokens]

NoUsage == [none |-> TRUE, prompt_tokens |-> 0, completion_tokens |-> 0, total_tokens |-> 0]

\* a call of _convert_response: the adapter, the usage of the response given,
\* whether the call was made, the exception it raised, the usage it returned
Conversion(of, response_usage, converted, raises, usage) ==
    [of |-> of, response_usage |-> response_usage, converted |-> converted,
     raises |-> raises, usage |-> usage]

\* no response converted
ConversionIdle ==
    conversion = Conversion("openai", BackendUsage(FALSE, Omitted, Omitted, Omitted),
                            FALSE, "none", NoUsage)

\* a call on the manager: the method, its name argument (None for
\* get_provider() and for the initialization), whether it raised, and for
\* initialize_providers_from_yaml the default_provider_id of the file and the
\* IDs of the instances that were initialized, in the order of the file
ManagerCall(op, name, raised, default_provider_id, initialized) ==
    [op |-> op, name |-> name, raised |-> raised,
     default_provider_id |-> default_provider_id, initialized |-> initialized]

NoManagerCall == ManagerCall("none", NoneVal, FALSE, NoneVal, <<>>)

\* a dict with no key
EmptyDict == [x \in {} |-> "none"]

\* LLMProviderManager.__init__, lines 102-104
NewManager == [providers |-> EmptyDict, default_provider |-> NoneVal, last |-> NoManagerCall]

\* a manager that is not exercised
ManagerIdle == manager = NewManager

\* a call on the registry: the method, the name and the instance of the tool
\* given, the category and override arguments, and the value returned
RegistryCall(op, tool_name, tool, category, override, returned) ==
    [op |-> op, tool_name |-> tool_name, tool |-> tool, category |-> category,
     override |-> override, returned |-> returned]

NoRegistryCall == RegistryCall("none", "", "none", NoneVal, FALSE, FALSE)

\* ToolRegistry.__init__, lines 14-16
NewRegistry == [tools |-> EmptyDict, categories |-> EmptyDict, last |-> NoRegistryCall]

\* a registry that is not exercised
RegistryIdle == registry = NewRegistry

\* the answer of a backend to a prompt fixture: the pieces of its text in
\* the groups the backend sends them in, and whether the installed pydantic
\* turns an int into the str that LLMStreamChunk.id asks for
Fixture(of, groups, int_to_str) == [of |-> of, groups |-> groups, int_to_str |-> int_to_str]

\* both answers of an adapter to a fixture: whether they were made, whether
\* stream_complete raised, the chunks it yielded, and message.content of the
\* response of complete
Answers(fixture, made, stream_raised, chunks, content) ==
    [fixture |-> fixture, made |-> made, stream_raised |-> stream_raised,
     chunks |-> chunks, content |-> content]

\* no fixture answered
StreamingIdle ==
    streaming = Answers(Fixture("openai", <<>>, TRUE), FALSE, FALSE, <<>>, NoneVal)

\* an adapter instance that several tasks use: every ClientSession made so
\* far ("open" or "closed"), which of them self.session is (0 = None), which
\* tasks are inside `async with adapter`, and the last request made
SharedAdapter(clients, current, inside, last) ==
    [clients |-> clients, session |-> current, inside |-> inside, last |-> last]

NoSharedRequest == [task |-> "none", in_scope |-> FALSE, outcome |-> "none"]

\* BaseLLMProvider.__init__: self.session = None
SharedIdle == shared = SharedAdapter(<<>>, 0, {}, NoSharedRequest)

\* the worker pool of one tool: for every invocation made so far, where its
\* synchronous body is and how the awaiting call ended
Pool(body, call) == [body |-> body, call |-> call]

\* BaseTool.__init__: a pool with no work
PoolIdle == pool = Pool(<<>>, <<>>)

MoreIdle == FilesIdle /\ SandboxIdle /\ CalculatorIdle /\ ConversionIdle /\ ManagerIdle /\ RegistryIdle /\ StreamingIdle /\ SharedIdle /\ PoolIdle


\* solve, lines 85-110: fresh chain, conversation seeded with system and user message
EngineStart ==
    /\ pc = "loop_head"
    /\ iteration = 0
    /\ iterations_done = 0
    /\ steps = <<>>
    /\ chain_status = "in_progress"
    /\ final_answer = NoneVal
    /\ completed_at = FALSE
    /\ stop_reason = "completed"
    /\ error_msg = "none"
    /\ local_final_answer = [bound |-> FALSE, val |-> NoneVal]
    /\ conv = add_user_message(add_system_message(<<>>, <<"s">>), <<"t">>, MaxMessages, 0)
    /\ turn_calls = <<>>
    /\ call_idx = 0
    /\ provider_requests = 0
    /\ last_request = <<>>
    /\ next_backend_id = 0
    /\ last_content = NoneVal
    /\ result = NoResult
    /\ notified = <<>>
    /\ notify_escaped = FALSE
    /\ provider_failure = NoFailure

Init ==
    /\ max_iterations \in 1..MaxIterations
    /\ max_tool_calls \in 1..MaxToolCap
    /\ adapter \in {"backend", "synthetic"}
    /\ callback = "none"
    /\ EngineStart
    /\ ScopeIdle
    /\ EnvIdle
    /\ ConvIdle
    /\ ExecIdle
    /\ MoreIdle

\* lines 113-127: top of the loop, stop conditions, provider request issued
LoopHead ==
    /\ pc = "loop_head"
    /\ IF LoopExhausted(iteration)
       THEN /\ Finalize(stop_reason, error_msg, final_answer)
            /\ UNCHANGED <<provider_requests, last_request>>
       ELSE LET chk == check_stop_conditions(steps, chain_status)
            IN  IF chk.should_stop
                THEN /\ Finalize(chk.stop_reason, error_msg, final_answer)
                     /\ UNCHANGED <<provider_requests, last_request>>
                ELSE /\ stop_reason' = chk.stop_reason
                     /\ provider_requests' = provider_requests + 1
                     /\ last_request' = conv
                     /\ pc' = "await_llm"
                     /\ UNCHANGED <<error_msg, completed_at, chain_status, final_answer, result>>
    /\ UNCHANGED <<callback, provider_failure, max_iterations, max_tool_calls, adapter, iteration, iterations_done, steps,
                   local_final_answer, conv, turn_calls, call_idx, next_backend_id, last_content, scope_vars, rest_vars>>
    /\ NotifyAppended

\* line 176: the provider request raises asyncio.TimeoutError
LLMTimesOut ==
    /\ pc = "await_llm"
    /\ Finalize("timeout", "timeout", final_answer)
    /\ UNCHANGED <<callback, provider_failure, max_iterations, max_tool_calls, adapter, iteration, iterations_done, steps,
                   local_final_answer, conv, turn_calls, call_idx, provider_requests,
                   last_request, next_backend_id, last_content, scope_vars, rest_vars>>
    /\ NotifyAppended

\* line 180: the provider request raises any other exception:
\* response.raise_for_status() of llm/base.py line 115 (an HTTP error status), or
\* _convert_response on a body that is not the backend's format
LLMRaises ==
    /\ pc = "await_llm"
    /\ \E kind \in ProviderErrors :
         provider_failure' = [kind |-> kind, requests |-> provider_requests]
    /\ FailWithError
    /\ UNCHANGED <<callback, max_iterations, max_tool_calls, adapter, iteration, iterations_done,
                   local_final_answer, conv, turn_calls, call_idx, provider_requests,
                   last_request, next_backend_id, last_content, scope_vars, rest_vars>>
    /\ NotifyAppended

\* lines 130-174: the provider returns an assistant message with k tool calls
LLMResponds ==
    /\ pc = "await_llm"
    /\ \E content \in ProviderTexts, k \in 0..MaxCallsPerTurn :
         LET calls == ToolCalls(ToolCallIds(adapter, content, k, next_backend_id))
             fa == IF Truthy(content)
                   THEN [bound |-> TRUE, val |-> extract_final_answer(content.text, StopPhrases)]
                   ELSE local_final_answer
             thought == IF Truthy(content)
                        THEN Append(steps, Step("thought", "completed", content, NoId))
                        ELSE steps
         IN  /\ local_final_answer' = fa
             /\ last_content' = content
             /\ next_backend_id' = next_backend_id + k
             /\ IF Truthy(content) /\ Truthy(fa.val)
                THEN \* lines 138-147: answer found
                     /\ steps' = Append(steps, Step("answer", "completed", fa.val, NoId))
                     /\ Finalize("completed", error_msg, fa.val)
                     /\ UNCHANGED <<conv, turn_calls, call_idx, iteration, iterations_done>>
                ELSE /\ conv' = add_assistant_message(conv, content, calls, MaxMessages, 0)
                     /\ IF k > 0
                        THEN \* line 162: tool calls to handle
                             /\ steps' = thought
                             /\ turn_calls' = calls
                             /\ call_idx' = 1
                             /\ pc' = "tool_call"
                             /\ UNCHANGED <<iteration, iterations_done, stop_reason, error_msg,
                                            completed_at, chain_status, final_answer, result>>
                        ELSE IF ~fa.bound
                        THEN \* line 170 reads final_answer before any assignment: UnboundLocalError
                             /\ steps' = Append(thought, Step("error", "failed", Some(<<"X">>), NoId))
                             /\ Finalize("error", "error", final_answer)
                             /\ UNCHANGED <<turn_calls, call_idx, iteration, iterations_done>>
                        ELSE IF ~Truthy(fa.val) /\ iteration >= max_iterations - 1
                        THEN \* lines 172-174
                             /\ steps' = thought
                             /\ Finalize("max_iterations", error_msg, final_answer)
                             /\ iterations_done' = iterations_done + 1
                             /\ UNCHANGED <<turn_calls, call_idx, iteration>>
                        ELSE /\ steps' = thought
                             /\ iteration' = iteration + 1
                             /\ iterations_done' = iterations_done + 1
                             /\ pc' = "loop_head"
                             /\ UNCHANGED <<turn_calls, call_idx, stop_reason, error_msg,
                                            completed_at, chain_status, final_answer, result>>
    /\ UNCHANGED <<callback, provider_failure, max_iterations, max_tool_calls, adapter, provider_requests, last_request,
                   scope_vars, rest_vars>>
    /\ NotifyAppended

\* _handle_tool_calls, lines 229-254: decode the arguments, append the tool_call
\* step, start the tool
ToolCallBegin ==
    /\ pc = "tool_call"
    /\ \E args_ok \in BOOLEAN :
         IF ~args_ok
         THEN \* get_arguments_dict raises at line 233, outside the try of line 249
              /\ FailWithError
              /\ UNCHANGED <<call_idx>>
         ELSE /\ steps' = Append(steps, Step("tool_call", "in_progress", NoneVal,
                                             turn_calls[call_idx].id))
              /\ pc' = "await_tool"
              /\ UNCHANGED <<call_idx, stop_reason, error_msg, completed_at, chain_status,
                             final_answer, result>>
    /\ UNCHANGED <<callback, provider_failure, max_iterations, max_tool_calls, adapter, iteration, iterations_done,
                   local_final_answer, conv, turn_calls, provider_requests, last_request,
                   next_backend_id, last_content, scope_vars, rest_vars>>
    /\ NotifyAppended

\* after one tool call: the next call of the turn, or the next loop iteration
AfterToolCall ==
    IF call_idx < Len(turn_calls)
    THEN /\ call_idx' = call_idx + 1
         /\ pc' = "tool_call"
         /\ UNCHANGED <<iteration, iterations_done>>
    ELSE /\ call_idx' = call_idx
         /\ pc' = "loop_head"
         /\ iteration' = iteration + 1
         /\ iterations_done' = iterations_done + 1

SetLastStatus(chain_steps, status) ==
    [chain_steps EXCEPT ![Len(chain_steps)].status = status]

\* the result step always given the id of the turn's first call
ResultCallId_first(calls, idx) == calls[1].id

\* line 263: tool_call_id=tool_call.id, the call the for loop of line 229 is at
ResultCallId(calls, idx) == calls[idx].id

\* lines 255-290: execute_tool returned a ToolResult
ToolReturns ==
    /\ pc = "await_tool"
    /\ LET id == ResultCallId(turn_calls, call_idx)
       IN  /\ steps' = Append(SetLastStatus(steps, "completed"),
                              Step("tool_result", "completed", Some(ToolResultText), id))
           /\ conv' = add_tool_result(conv, id, ToolResultText, MaxMessages, 0)
    /\ AfterToolCall
    /\ UNCHANGED <<callback, provider_failure, max_iterations, max_tool_calls, adapter, local_final_answer, turn_calls,
                   provider_requests, last_request, next_backend_id, last_content, stop_reason, error_msg,
                   completed_at, chain_status, final_answer, result, scope_vars, rest_vars>>
    /\ NotifyAppended

\* lines 292-313: execute_tool raised
ToolRaises ==
    /\ pc = "await_tool"
    /\ LET id == turn_calls[call_idx].id
       IN  /\ steps' = Append(SetLastStatus(steps, "failed"),
                              Step("error", "failed", Some(ToolErrorText), NoId))
           /\ conv' = add_tool_result(conv, id, ToolErrorText, MaxMessages, 0)
    /\ AfterToolCall
    /\ UNCHANGED <<callback, provider_failure, max_iterations, max_tool_calls, adapter, local_final_answer, turn_calls,
                   provider_requests, last_request, next_backend_id, last_content, stop_reason, error_msg,
                   completed_at, chain_status, final_answer, result, scope_vars, rest_vars>>
    /\ NotifyAppended

Next ==
    \/ LoopHead
    \/ LLMTimesOut
    \/ LLMRaises
    \/ LLMResponds
    \/ ToolCallBegin
    \/ ToolReturns
    \/ ToolRaises

Spec == Init /\ [][Next]_vars

\* every awaited provider request and tool call returns or raises
FairSpec == Spec /\ WF_vars(Next)

\* ------------------------------------------- solve and its surroundings
\* ReasoningConfig.timeout seconds have gone by while solve is running.  solve
\* (engine.py:68-201) reads no clock and never reads config.timeout, so the
\* passing of the limit changes nothing in it.
DeadlinePasses ==
    /\ pc \notin {"done", "cancelled"}
    /\ ~deadline_passed
    /\ deadline_passed' = TRUE
    /\ UNCHANGED <<engine_vars, scope_vars, conv_vars, exec_vars, more_vars>>

\* the task running solve is cancelled while it awaits the provider (line 123)
\* or a tool (line 250): asyncio.CancelledError is raised at the await.  It is
\* a BaseException, so neither `except asyncio.TimeoutError` (line 176) nor
\* `except Exception` (lines 180, 292) catches it; lines 190-201 are not run
\* and solve returns nothing.
Cancel ==
    /\ pc \in {"await_llm", "await_tool"}
    /\ pc' = "cancelled"
    /\ UNCHANGED <<callback, provider_failure, max_iterations, max_tool_calls, adapter, iteration, iterations_done,
                   steps, chain_status, final_answer, completed_at, stop_reason, error_msg,
                   local_final_answer, conv, turn_calls, call_idx, provider_requests,
                   last_request, next_backend_id, last_content, result, scope_vars, rest_vars>>
    /\ NotifyAppended

NextEnv ==
    \/ Next
    \/ DeadlinePasses
    \/ Cancel

SpecEnv == Init /\ [][NextEnv]_vars

\* solve driving the repository's ToolExecutor: execute_tool hands back a
\* ToolResult in every case (executor.py:71-102), so the except branch of
\* engine.py:292 is not taken
NextWithExecutor ==
    \/ LoopHead
    \/ LLMTimesOut
    \/ LLMRaises
    \/ LLMResponds
    \/ ToolCallBegin
    \/ ToolReturns

SpecWithExecutor == Init /\ [][NextWithExecutor]_vars

\* solve on an engine that was given a step callback (set_step_callback, lines
\* 382-387) before the call: one that returns, or one that raises an Exception
InitCallback ==
    /\ max_iterations \in 1..MaxIterations
    /\ max_tool_calls \in 1..MaxToolCap
    /\ adapter \in {"backend", "synthetic"}
    /\ callback \in {"returns", "raises"}
    /\ EngineStart
    /\ ScopeIdle
    /\ EnvIdle
    /\ ConvIdle
    /\ ExecIdle
    /\ MoreIdle

SpecCallback == InitCallback /\ [][Next]_vars

\* ------------------------------------------------- HTTP scope of an adapter
Providers == {"openai", "anthropic", "gemini", "grok"}

\* the method that posts the request: OpenAI and Grok use the base class's
\* _make_request/_stream_request, Anthropic overrides _make_request, Gemini has
\* _make_gemini_request/_stream_gemini_request
RequestFn(p, op) ==
    IF p = "gemini"
    THEN (IF op = "complete" THEN "gemini._make_gemini_request" ELSE "gemini._stream_gemini_request")
    ELSE IF p = "anthropic" /\ op = "complete" THEN "anthropic._make_request"
    ELSE IF op = "complete" THEN "base._make_request" ELSE "base._stream_request"

\* `if not self.session: raise RuntimeError("Session not initialized. ...")`,
\* the same test in all five request methods
SessionMissing(fn, s) == s = "none"

\* the adapter is inside its HTTP scope: entered and not yet exited
InScope(s) == s = "open"

EngineIdle ==
    /\ max_iterations = 1
    /\ max_tool_calls = 1
    /\ adapter = "backend"
    /\ callback = "none"
    /\ EngineStart

InitScope ==
    /\ EngineIdle
    /\ provider \in Providers
    /\ session = "none"
    /\ http_sent = 0
    /\ last_call = [op |-> "none", scope |-> "none", outcome |-> "none", sent |-> FALSE]
    /\ EnvIdle
    /\ ConvIdle
    /\ ExecIdle
    /\ MoreIdle

\* BaseLLMProvider.__aenter__: a new ClientSession is stored
AEnter ==
    /\ session # "open"
    /\ session' = "open"
    /\ UNCHANGED <<provider, http_sent, last_call, engine_vars, rest_vars>>

\* BaseLLMProvider.__aexit__: the session is closed; self.session keeps the closed object
AExit ==
    /\ session = "open"
    /\ session' = "closed"
    /\ UNCHANGED <<provider, http_sent, last_call, engine_vars, rest_vars>>

\* complete / stream_complete down to the post.  A closed aiohttp ClientSession
\* refuses the post with RuntimeError("Session is closed") and sends nothing.
Request(op) ==
    LET fn == RequestFn(provider, op)
    IN  IF SessionMissing(fn, session)
        THEN /\ last_call' = [op |-> op, scope |-> session, outcome |-> "precondition_error", sent |-> FALSE]
             /\ UNCHANGED http_sent
        ELSE IF session = "closed"
        THEN /\ last_call' = [op |-> op, scope |-> session, outcome |-> "session_closed_error", sent |-> FALSE]
             /\ UNCHANGED http_sent
        ELSE /\ http_sent < MaxHttp
             /\ http_sent' = http_sent + 1
             /\ \E outcome \in {"response", "http_error"} :
                  last_call' = [op |-> op, scope |-> session, outcome |-> outcome, sent |-> TRUE]

Complete ==
    /\ Request("complete")
    /\ UNCHANGED <<provider, session, engine_vars, rest_vars>>

StreamComplete ==
    /\ Request("stream_complete")
    /\ UNCHANGED <<provider, session, engine_vars, rest_vars>>

NextScope ==
    \/ AEnter
    \/ AExit
    \/ Complete
    \/ StreamComplete

SpecScope == InitScope /\ [][NextScope]_vars

\* --------------------------------------- a ConversationManager on its own
\* a text of n characters, different for every message handed in
Text(serial, n) == [i \in 1..n |-> ToString(serial)]

\* content lengths: one token, and more tokens than any configured cap
ContentLens == {CharsPerToken, CharsPerToken * (MaxTokenCap + 1)}

\* ConversationManager.__init__
InitConv ==
    /\ EngineIdle
    /\ ScopeIdle
    /\ EnvIdle
    /\ ExecIdle
    /\ MoreIdle
    /\ cm_system_message \in {NoneVal, Some(<<"s">>)}
    /\ cm_max_messages \in {0, MaxMsgCap}
    /\ cm_max_tokens \in {0, MaxTokenCap}
    /\ cm_messages = IF Truthy(cm_system_message)
                     THEN add_system_message(<<>>, cm_system_message.text) ELSE <<>>
    /\ cm_appended = <<>>
    /\ cm_last_op = [op |-> "none", before |-> <<>>]
    /\ cm_serial = 0

\* ConversationManager.get_last_assistant_message, as its position (0 = None)
get_last_assistant_message(msgs) ==
    IF \E k \in 1..Len(msgs) : msgs[k].role = "assistant"
    THEN CHOOSE k \in 1..Len(msgs) :
            /\ msgs[k].role = "assistant"
            /\ \A j \in (k + 1)..Len(msgs) : msgs[j].role # "assistant"
    ELSE 0

\* lines 127-130: the ids of every tool message of the log
responded_ids(msgs) ==
    {msgs[j].tool_call_id : j \in {i \in 1..Len(msgs) :
                                      msgs[i].role = "tool" /\ msgs[i].tool_call_id # NoId}}

\* ConversationManager.get_tool_calls_pending
get_tool_calls_pending(msgs) ==
    LET k == get_last_assistant_message(msgs)
    IN  IF k = 0 THEN <<>>
        ELSE IF msgs[k].tool_calls = <<>> THEN <<>>
        ELSE LET Unanswered(tc) == tc.id \notin responded_ids(msgs)
             IN  SelectSeq(msgs[k].tool_calls, Unanswered)

\* ConversationManager.clear
clear(msgs, system_message, keep_system) ==
    IF keep_system /\ Truthy(system_message)
    THEN (IF msgs # <<>> /\ IsSystem(msgs[1]) THEN <<msgs[1]>> ELSE <<>>)
    ELSE <<>>

\* one more operation on the manager; the log it was applied to is remembered
CmOp(op) ==
    /\ cm_serial < MaxConvOps
    /\ cm_serial' = cm_serial + 1
    /\ cm_last_op' = [op |-> op, before |-> cm_messages]
    /\ UNCHANGED <<cm_system_message, cm_max_messages, cm_max_tokens,
                   engine_vars, scope_vars, env_vars, exec_vars, more_vars>>

\* append m through add_message (lines 97-100), directly or by a wrapper
CmAppend(m) ==
    /\ cm_messages' = add_message(cm_messages, m, cm_max_messages, cm_max_tokens)
    /\ cm_appended' = IF IsSystem(m) THEN cm_appended ELSE Append(cm_appended, m)
    /\ CmOp("append")

CmAddSystemMessage ==
    /\ cm_messages' = add_system_message(cm_messages, Text(cm_serial, 1))
    /\ UNCHANGED cm_appended
    /\ CmOp("system")

CmAddUserMessage ==
    \E n \in ContentLens :
        CmAppend(Msg("user", Some(Text(cm_serial, n)), <<>>, NoId))

\* tool-call ids as the backends hand them out; the Gemini adapter numbers the
\* calls of every response from call_0 again (gemini_provider.py:198)
CallIds == {<<"call", 0>>, <<"call", 1>>}

\* the tool_calls of one assistant message: none, one call, or both
CallLists == {<<>>, <<(<<"call", 0>>)>>, <<(<<"call", 1>>)>>, <<(<<"call", 0>>), (<<"call", 1>>)>>}

CmAddAssistantMessage ==
    \E ids \in CallLists :
        CmAppend(Msg("assistant", Some(Text(cm_serial, CharsPerToken)), ToolCalls(ids), NoId))

CmAddToolResult ==
    \E id \in CallIds :
        CmAppend(Msg("tool", Some(Text(cm_serial, CharsPerToken)), <<>>, id))

\* add_message called with a Message of the caller's making
CmAddMessage ==
    \E role \in {"system", "user"} :
        CmAppend(Msg(role, Some(Text(cm_serial, CharsPerToken)), <<>>, NoId))

CmClear ==
    /\ \E keep_system \in BOOLEAN :
         /\ cm_messages' = clear(cm_messages, cm_system_message, keep_system)
         /\ CmOp(IF keep_system THEN "clear_keep_system" ELSE "clear")
    /\ cm_appended' = <<>>

NextConv ==
    \/ CmAddSystemMessage
    \/ CmAddUserMessage
    \/ CmAddAssistantMessage
    \/ CmAddToolResult
    \/ CmAddMessage
    \/ CmClear

SpecConv == InitConv /\ [][NextConv]_vars

\* ------------------------------------------------- a ToolExecutor on its own
\* tools in the registry, and a name that is not
Registered == {"calc"}

ToolNames == Registered \cup {"nope"}

\* what happens inside BaseTool.safe_execute for a registered tool:
\*   ok               the body returns ToolResult.success_result
\*   invalid          validate_arguments returns False
\*   validate_raises  validate_arguments raises (arguments that are no mapping)
\*   timeout          asyncio.wait_for raises asyncio.TimeoutError
\*   body_raises      the body raises an Exception
Outcomes == {"ok", "invalid", "validate_raises", "timeout", "body_raises"}

OutcomesOf(name) == IF name \in Registered THEN Outcomes ELSE {"not_found"}

\* ToolResult.success_result / ToolResult.error_result; error "none" is None
success_result == [success |-> TRUE, error |-> "none"]

error_result(error) == [success |-> FALSE, error |-> error]

Returns(r) == [raised |-> FALSE, result |-> r]

Raises == [raised |-> TRUE, result |-> [success |-> FALSE, error |-> "none"]]

\* BaseTool.safe_execute, base.py:166-208
safe_execute(outcome) ==
    CASE outcome = "invalid" -> Returns(error_result("invalid_arguments"))
      [] outcome = "validate_raises" -> Raises
      [] outcome = "timeout" -> Returns(error_result("timed_out"))
      [] outcome = "body_raises" -> Returns(error_result("execution_failed"))
      [] OTHER -> Returns(success_result)

\* execute_tool without the try/except around safe_execute
execute_tool_uncaught(name, outcome) ==
    IF name \notin Registered
    THEN Returns(error_result("not_found"))
    ELSE safe_execute(outcome)

\* ToolExecutor.execute_tool, executor.py:71-90: what it hands back
execute_tool(name, outcome) ==
    IF name \notin Registered
    THEN Returns(error_result("not_found"))
    ELSE LET r == safe_execute(outcome)
         IN  IF r.raised THEN Returns(error_result("unexpected_error")) ELSE r

\* the slice taken from the front: the oldest records are kept
record_execution_keepOldest(history, record) ==
    LET h == Append(history, record)
    IN  IF Len(h) > max_history_size THEN SubSeq(h, 1, max_history_size) ELSE h

\* a failed execution leaves no record
record_execution_skipFailures(history, record) ==
    IF record.success
    THEN LET h == Append(history, record)
         IN  IF Len(h) > max_history_size
             THEN SubSeq(h, Len(h) - max_history_size + 1, Len(h))
             ELSE h
    ELSE history

\* the record written over the latest one, as a stale copy of the list would
record_execution_overLatest(history, record) ==
    IF history = <<>> THEN <<record>>
    ELSE [history EXCEPT ![Len(history)] = record]

\* ToolExecutor._record_execution, executor.py:199-203
record_execution(history, record) ==
    LET h == Append(history, record)
    IN  IF Len(h) > max_history_size
        THEN SubSeq(h, Len(h) - max_history_size + 1, Len(h))
        ELSE h

\* results taken in the order the calls completed
gather_completionOrder(tasks, order) == [i \in 1..Len(order) |-> tasks[order[i]].result]

\* asyncio.gather(*tasks): the results in the order of the awaitables
gather(tasks, order) == [i \in 1..Len(tasks) |-> tasks[i].result]

\* executor.py:136-146: results.append(result) as each call of the loop returns
append_in_loop(tasks, order) == [i \in 1..Len(order) |-> tasks[order[i]].result]

\* a failed record not counted as failed
ToolEntry_skipFailed(e, success) ==
    [count |-> e.count + 1,
     success |-> e.success + (IF success THEN 1 ELSE 0),
     failed |-> e.failed]

\* executor.py:273-277: one record counted into its tool's entry
ToolEntry(e, success) ==
    [count |-> e.count + 1,
     success |-> e.success + (IF success THEN 1 ELSE 0),
     failed |-> e.failed + (IF success THEN 0 ELSE 1)]

\* executor.py:263-277: the loop over the history that builds tools_used
RECURSIVE ToolsUsed(_, _)
ToolsUsed(history, k) ==
    IF k = 0 THEN [t \in {} |-> [count |-> 0, success |-> 0, failed |-> 0]]
    ELSE LET prev == ToolsUsed(history, k - 1)
             t == history[k].tool_name
             e == IF t \in DOMAIN prev THEN prev[t]
                  ELSE [count |-> 0, success |-> 0, failed |-> 0]
         IN  [x \in DOMAIN prev \cup {t} |->
                 IF x = t THEN ToolEntry(e, history[k].success) ELSE prev[x]]

IsSuccess(record) == record.success

\* ToolExecutor.get_statistics (the averages left out)
get_statistics(history) ==
    IF history = <<>>
    THEN [total |-> 0, successful |-> 0, failed |-> 0,
          tools_used |-> ToolsUsed(history, 0)]
    ELSE LET total == Len(history)
             successful == Len(SelectSeq(history, IsSuccess))
         IN  [total |-> total, successful |-> successful, failed |-> total - successful,
              tools_used |-> ToolsUsed(history, Len(history))]

InitExec ==
    /\ EngineIdle
    /\ ScopeIdle
    /\ EnvIdle
    /\ ConvIdle
    /\ ExecIdle
    /\ MoreIdle

\* execute_multiple is called with 1..MaxBatch calls: in parallel mode every
\* execute_tool coroutine is handed to asyncio.gather, in sequential mode the
\* loop of line 138 starts.  A client's single execute_tool call is the
\* sequential case with one call.
ExecuteMultiple ==
    /\ exec_tasks = <<>>
    /\ \E n \in 1..MaxBatch, parallel \in BOOLEAN :
         \E names \in [1..n -> ToolNames] :
            /\ exec_serial + n <= MaxExecCalls
            /\ exec_tasks' = [i \in 1..n |->
                                [name |-> names[i], serial |-> exec_serial + i, done |-> FALSE,
                                 outcome |-> "none", raised |-> FALSE,
                                 result |-> [success |-> FALSE, error |-> "none", serial |-> 0]]]
            /\ exec_parallel' = parallel
            /\ exec_serial' = exec_serial + n
    /\ exec_order' = <<>>
    /\ UNCHANGED <<exec_history, exec_log, exec_returned,
                   engine_vars, scope_vars, env_vars, conv_vars, more_vars>>

\* one execute_tool call of the running execute_multiple runs to its return:
\* any unfinished call in parallel mode, the next call of the loop otherwise.
\* Each result is tagged with the serial of the call that produced it.
ExecuteTool ==
    /\ \E i \in 1..Len(exec_tasks) :
         /\ ~exec_tasks[i].done
         /\ exec_parallel \/ \A j \in 1..(i - 1) : exec_tasks[j].done
         /\ \A j \in 1..Len(exec_tasks) : ~exec_tasks[j].raised
         /\ \E outcome \in OutcomesOf(exec_tasks[i].name) :
              LET r == execute_tool(exec_tasks[i].name, outcome)
                  record == [tool_name |-> exec_tasks[i].name, success |-> r.result.success,
                             serial |-> exec_tasks[i].serial]
              IN  /\ exec_tasks' = [exec_tasks EXCEPT ![i] =
                                       [@ EXCEPT !.done = TRUE, !.outcome = outcome,
                                                 !.raised = r.raised,
                                                 !.result = [success |-> r.result.success,
                                                             error |-> r.result.error,
                                                             serial |-> exec_tasks[i].serial]]]
                  /\ IF r.raised
                     THEN UNCHANGED <<exec_history, exec_log>>
                     ELSE /\ exec_history' = record_execution(exec_history, record)
                          /\ exec_log' = Append(exec_log, record)
                  /\ exec_order' = Append(exec_order, i)
    /\ UNCHANGED <<exec_serial, exec_parallel, exec_returned,
                   engine_vars, scope_vars, env_vars, conv_vars, more_vars>>

\* execute_multiple returns its list (line 134 or 146), or lets an exception
\* of one of its calls through
ExecuteMultipleReturns ==
    /\ exec_tasks # <<>>
    /\ \/ \A i \in 1..Len(exec_tasks) : exec_tasks[i].done
       \/ \E i \in 1..Len(exec_tasks) : exec_tasks[i].raised
    /\ exec_returned' =
         [via |-> "execute_multiple",
          calls |-> [i \in 1..Len(exec_tasks) |->
                        [name |-> exec_tasks[i].name, serial |-> exec_tasks[i].serial]],
          parallel |-> exec_parallel,
          results |-> IF exec_parallel THEN gather(exec_tasks, exec_order)
                      ELSE append_in_loop(exec_tasks, exec_order),
          raised |-> \E i \in 1..Len(exec_tasks) : exec_tasks[i].raised]
    /\ exec_tasks' = <<>>
    /\ exec_order' = <<>>
    /\ exec_parallel' = FALSE
    /\ UNCHANGED <<exec_history, exec_log, exec_serial,
                   engine_vars, scope_vars, env_vars, conv_vars, more_vars>>

\* the 'arguments' of an LLM tool call: a dict, a string holding a JSON object,
\* a string holding other JSON (a list, a number), a string that is not JSON
ArgumentForms == {"dict", "json_object", "json_other", "malformed"}

\* executor.py:168-177: isinstance(arguments_str, str) and json.loads
json_loads(form) ==
    CASE form = "dict" -> [decoded |-> TRUE, mapping |-> TRUE]
      [] form = "json_object" -> [decoded |-> TRUE, mapping |-> TRUE]
      [] form = "json_other" -> [decoded |-> TRUE, mapping |-> FALSE]
      [] OTHER -> [decoded |-> FALSE, mapping |-> FALSE]

\* what safe_execute can do with the decoded arguments: validate_arguments
\* calls arguments.items() (base.py:139), which raises on anything but a mapping
OutcomesOfDecoded(name, form) ==
    IF name \notin Registered THEN {"not_found"}
    ELSE IF json_loads(form).mapping THEN Outcomes \ {"validate_raises"}
    ELSE {"validate_raises"}

\* ToolExecutor.execute_from_llm_call, executor.py:148-179: what it hands back
\* and whether execute_tool, which records, was reached
execute_from_llm_call(name, form, outcome) ==
    IF ~json_loads(form).decoded
    THEN [reached |-> FALSE, result |-> error_result("parse_failed")]
    ELSE [reached |-> TRUE, result |-> execute_tool(name, outcome).result]

\* one execute_from_llm_call runs to its return while nothing else runs
ExecuteFromLLMCall ==
    /\ exec_tasks = <<>>
    /\ exec_serial < MaxExecCalls
    /\ \E name \in ToolNames, form \in ArgumentForms :
         \E outcome \in OutcomesOfDecoded(name, form) :
            LET r == execute_from_llm_call(name, form, outcome)
                serial == exec_serial + 1
                record == [tool_name |-> name, success |-> r.result.success,
                           serial |-> serial]
            IN  /\ exec_returned' =
                      [via |-> "execute_from_llm_call",
                       calls |-> <<[name |-> name, serial |-> serial]>>,
                       parallel |-> FALSE,
                       results |-> <<[success |-> r.result.success,
                                      error |-> r.result.error, serial |-> serial]>>,
                       raised |-> FALSE]
                /\ exec_serial' = serial
                /\ IF r.reached
                   THEN /\ exec_history' = record_execution(exec_history, record)
                        /\ exec_log' = Append(exec_log, record)
                   ELSE UNCHANGED <<exec_history, exec_log>>
    /\ UNCHANGED <<exec_tasks, exec_parallel, exec_order,
                   engine_vars, scope_vars, env_vars, conv_vars, more_vars>>

\* ToolExecutor.clear_history
ClearHistory ==
    /\ exec_history # <<>>
    /\ exec_history' = <<>>
    /\ exec_log' = <<>>
    /\ UNCHANGED <<exec_serial, exec_tasks, exec_parallel, exec_order, exec_returned,
                   engine_vars, scope_vars, env_vars, conv_vars, more_vars>>

NextExec ==
    \/ ExecuteMultiple
    \/ ExecuteTool
    \/ ExecuteMultipleReturns
    \/ ExecuteFromLLMCall
    \/ ClearHistory

SpecExec == InitExec /\ [][NextExec]_vars

\* each of the subsystems below on its own: the others are not exercised
OnlyFiles == EngineIdle /\ ScopeIdle /\ EnvIdle /\ ConvIdle /\ ExecIdle /\ SandboxIdle /\ CalculatorIdle /\ ConversionIdle /\ ManagerIdle /\ RegistryIdle /\ StreamingIdle /\ SharedIdle /\ PoolIdle
OnlySandbox == EngineIdle /\ ScopeIdle /\ EnvIdle /\ ConvIdle /\ ExecIdle /\ FilesIdle /\ CalculatorIdle /\ ConversionIdle /\ ManagerIdle /\ RegistryIdle /\ StreamingIdle /\ SharedIdle /\ PoolIdle
OnlyCalculator == EngineIdle /\ ScopeIdle /\ EnvIdle /\ ConvIdle /\ ExecIdle /\ FilesIdle /\ SandboxIdle /\ ConversionIdle /\ ManagerIdle /\ RegistryIdle /\ StreamingIdle /\ SharedIdle /\ PoolIdle
OnlyConversion == EngineIdle /\ ScopeIdle /\ EnvIdle /\ ConvIdle /\ ExecIdle /\ FilesIdle /\ SandboxIdle /\ CalculatorIdle /\ ManagerIdle /\ RegistryIdle /\ StreamingIdle /\ SharedIdle /\ PoolIdle
OnlyManager == EngineIdle /\ ScopeIdle /\ EnvIdle /\ ConvIdle /\ ExecIdle /\ FilesIdle /\ SandboxIdle /\ CalculatorIdle /\ ConversionIdle /\ RegistryIdle /\ StreamingIdle /\ SharedIdle /\ PoolIdle
OnlyRegistry == EngineIdle /\ ScopeIdle /\ EnvIdle /\ ConvIdle /\ ExecIdle /\ FilesIdle /\ SandboxIdle /\ CalculatorIdle /\ ConversionIdle /\ ManagerIdle /\ StreamingIdle /\ SharedIdle /\ PoolIdle
OnlyStreaming == EngineIdle /\ ScopeIdle /\ EnvIdle /\ ConvIdle /\ ExecIdle /\ FilesIdle /\ SandboxIdle /\ CalculatorIdle /\ ConversionIdle /\ ManagerIdle /\ RegistryIdle /\ SharedIdle /\ PoolIdle
OnlyShared == EngineIdle /\ ScopeIdle /\ EnvIdle /\ ConvIdle /\ ExecIdle /\ FilesIdle /\ SandboxIdle /\ CalculatorIdle /\ ConversionIdle /\ ManagerIdle /\ RegistryIdle /\ StreamingIdle /\ PoolIdle
OnlyPool == EngineIdle /\ ScopeIdle /\ EnvIdle /\ ConvIdle /\ ExecIdle /\ FilesIdle /\ SandboxIdle /\ CalculatorIdle /\ ConversionIdle /\ ManagerIdle /\ RegistryIdle /\ StreamingIdle /\ SharedIdle

\* ------------------------------------------------------ FileOperationsTool
\* path arguments: relative and absolute ones, with "..", through the symlink,
\* and combinations of these
RelativePaths ==
    {<<>>, <<"d">>, <<"d", "d">>, <<"..">>, <<"d", "..">>, <<"d", "..", "..">>,
     <<"..", "out", "d">>, <<"l">>, <<"l", "d">>, <<"l", "..">>}

AbsolutePaths ==
    {<<"out", "d">>, <<"ws", "d">>, <<"ws", "l", "d">>, <<"ws", "..", "out">>}

PathInputs ==
    [absolute : {FALSE}, segs : RelativePaths] \cup [absolute : {TRUE}, segs : AbsolutePaths]

Operations == {"read", "write", "append", "list", "exists", "delete"}

Parent(q) == IF q = <<>> THEN <<>> ELSE SubSeq(q, 1, Len(q) - 1)

\* what the operating system makes of a path: ".." goes up, a symlink is
\* followed wherever it stands in the path
RECURSIVE realpath(_, _, _, _)
realpath(cur, segs, k, link) ==
    IF k > Len(segs) THEN cur
    ELSE LET next == IF segs[k] = ".." THEN Parent(cur)
                     ELSE IF Append(cur, segs[k]) = LinkPath THEN link
                     ELSE Append(cur, segs[k])
         IN  realpath(next, segs, k + 1, link)

\* ".." folded away without looking at the filesystem
RECURSIVE normpath(_, _, _)
normpath(cur, segs, k) ==
    IF k > Len(segs) THEN cur
    ELSE normpath(IF segs[k] = ".." THEN Parent(cur) ELSE Append(cur, segs[k]), segs, k + 1)

\* lines 130-132: an absolute path stands, a relative one is joined to workspace_dir
StartOf(input) ==
    IF input.absolute THEN <<>> ELSE WorkspaceRoot

\* the path made absolute but symlinks not followed
resolved_lexical(input, link) == normpath(StartOf(input), input.segs, 1)

\* line 134: path.resolve()
resolved(input, link) == realpath(StartOf(input), input.segs, 1, link)

\* lines 137-142: path.relative_to(workspace_dir.resolve()) does not raise
InWorkspace(q) ==
    /\ Len(q) >= Len(WorkspaceRoot)
    /\ SubSeq(q, 1, Len(WorkspaceRoot)) = WorkspaceRoot

Exists(tree, q) == q \in DOMAIN tree

IsFile(tree, q) == Exists(tree, q) /\ tree[q].kind = "file"

IsDir(tree, q) == Exists(tree, q) /\ tree[q].kind = "dir"

\* any(path.iterdir()): the directory has an entry (the symlink is one)
HasEntries(tree, q) ==
    \/ \E r \in DOMAIN tree : r # <<>> /\ Parent(r) = q
    \/ q = Parent(LinkPath)

Prefixes(q) == {SubSeq(q, 1, n) : n \in 0..(Len(q) - 1)}

Outcome(success, tree) == [success |-> success, tree |-> tree]

\* _write_file / _append_file: parent.mkdir(parents=True, exist_ok=True), then
\* open(path, 'w' or 'a'); both raise when a file stands where a directory is
\* needed or a directory where the file is to be
write_file(tree, q, data) ==
    IF (\A r \in Prefixes(q) : Exists(tree, r) => IsDir(tree, r)) /\ ~IsDir(tree, q)
    THEN Outcome(TRUE, [r \in DOMAIN tree \cup Prefixes(q) \cup {q} |->
                           IF r = q THEN Node("file", data)
                           ELSE IF r \in DOMAIN tree THEN tree[r] ELSE Node("dir", "none")])
    ELSE Outcome(FALSE, tree)

\* a directory removed with whatever it holds
delete_file_recursive(tree, q, allow_delete) ==
    IF ~allow_delete \/ ~Exists(tree, q) THEN Outcome(FALSE, tree)
    ELSE Outcome(TRUE, [r \in {x \in DOMAIN tree :
                                  ~(Len(x) >= Len(q) /\ SubSeq(x, 1, Len(q)) = q)} |-> tree[r]])

\* FileOperationsTool._delete_file, lines 261-292
delete_file(tree, q, allow_delete) ==
    IF ~allow_delete \/ ~Exists(tree, q) THEN Outcome(FALSE, tree)
    ELSE IF IsDir(tree, q) /\ HasEntries(tree, q) THEN Outcome(FALSE, tree)
    ELSE Outcome(TRUE, [r \in DOMAIN tree \ {q} |-> tree[r]])

\* lines 95-114: the operation carried out on the real location q
file_operation(op, tree, q, allow_delete) ==
    CASE op = "read" -> Outcome(IsFile(tree, q), tree)
      [] op = "write" -> write_file(tree, q, "new")
      [] op = "append" -> write_file(tree, q, "app")
      [] op = "list" -> Outcome(IsDir(tree, q), tree)
      [] op = "exists" -> Outcome(TRUE, tree)
      [] OTHER -> delete_file(tree, q, allow_delete)

\* FileOperationsTool.__init__: the tool is made with or without delete
\* permission; the symlink of the workspace points out of it or into it
InitFiles ==
    /\ OnlyFiles
    /\ fs_tree = InitialTree
    /\ fs_link \in {<<"out">>, <<"ws", "d">>}
    /\ fs_allow_delete \in BOOLEAN
    /\ fs_last = NoFileOp

\* FileOperationsTool.execute, lines 85-114.  The operation is carried out on
\* the path that passed the check, at the place the operating system finds
\* for it.
Execute ==
    /\ \E op \in Operations, input \in PathInputs :
         LET checked == resolved(input, fs_link)
             real == realpath(<<>>, checked, 1, fs_link)
             true_path == realpath(StartOf(input), input.segs, 1, fs_link)
             escapes == ~InWorkspace(true_path)
             through_link == \E k \in 1..Len(input.segs) : input.segs[k] = "l"
             nonempty_dir == IsDir(fs_tree, true_path) /\ HasEntries(fs_tree, true_path)
         IN  IF ~InWorkspace(checked)
             THEN /\ fs_last' = FileOp(op, escapes, through_link, nonempty_dir,
                                       FALSE, FALSE, FALSE, FALSE)
                  /\ UNCHANGED fs_tree
             ELSE LET r == file_operation(op, fs_tree, real, fs_allow_delete)
                  IN  /\ fs_last' = FileOp(op, escapes, through_link, nonempty_dir,
                                           TRUE, ~InWorkspace(real), r.success,
                                           r.tree # fs_tree)
                      /\ fs_tree' = r.tree
    /\ UNCHANGED <<fs_link, fs_allow_delete, BesideFiles>>

NextFiles == Execute

SpecFiles == InitFiles /\ [][NextFiles]_vars

\* -------------------------------------------------------- CodeExecutorTool
MaxStmts == 2

\* CodeExecutorTool.SAFE_MODULES, lines 37-40
SAFE_MODULES == {"math", "random", "datetime", "json", "itertools", "collections",
                 "functools", "re", "string", "decimal", "fractions"}

\* the names of CodeExecutorTool.SAFE_BUILTINS (lines 27-34) the programs use
SAFE_BUILTINS == {"print", "len", "type"}

\* dangerous_funcs of _is_safe_code, lines 239-242
dangerous_funcs == {"exec", "eval", "compile", "__import__", "open", "input", "raw_input"}

\* dangerous_attrs of _is_safe_code, lines 249-252
dangerous_attrs == {"__dict__", "__class__", "__bases__", "__subclasses__",
                    "__globals__", "__code__", "__closure__"}

\* the modules the interpreter can import, and the module a name of a module
\* is bound to: random.py starts with `import os as _os`, os.py binds `path`
ExistingModules == SAFE_MODULES \cup {"os", "sys"}

ModuleOfAttr(module, name) ==
    CASE module = <<"random">> /\ name = "_os" -> "os"
      [] module = <<"os">> /\ name = "path" -> "os"
      [] OTHER -> "none"

HasAttr(module, name) ==
    \/ ModuleOfAttr(module, name) # "none"
    \/ module = <<"math">> /\ name = "pi"

\* the statements the programs are made of
Statements ==
    {Stmt("Import", <<"math">>, 0, "math"),              \* import math
     Stmt("Import", <<"os">>, 0, "os"),                  \* import os
     Stmt("Import", <<"os", "path">>, 0, "os"),          \* import os.path
     Stmt("ImportFrom", <<"math">>, 0, "pi"),            \* from math import pi
     Stmt("ImportFrom", <<"os">>, 0, "path"),            \* from os import path
     Stmt("ImportFrom", <<"random">>, 0, "_os"),         \* from random import _os
     Stmt("ImportFrom", <<>>, 1, "os"),                  \* from . import os
     Stmt("Call", <<>>, 0, "print"),                     \* print(1)
     Stmt("Call", <<>>, 0, "open"),                      \* open("x")
     Stmt("Call", <<>>, 0, "__import__"),                \* __import__("os")
     Stmt("Attribute", <<>>, 0, "__class__"),            \* x = (1).__class__
     Stmt("Attribute", <<>>, 0, "real"),                 \* x = (1).real
     Stmt("Name", <<>>, 0, "open")}                      \* f = open

Programs == UNION {[1..n -> Statements] : n \in 1..MaxStmts}

\* name.split('.')[0]; the first part of '' is ''
FirstPart(module) == IF module = <<>> THEN "" ELSE Head(module)

\* what _is_safe_code finds wrong with one node, lines 224-254
node_is_unsafe(node, allow_imports) ==
    \/ /\ node.kind \in {"Import", "ImportFrom"}
       /\ \/ ~allow_imports
          \/ node.kind = "Import" /\ FirstPart(node.module) \notin SAFE_MODULES
          \/ /\ node.kind = "ImportFrom"
             /\ node.module # <<>>
             /\ FirstPart(node.module) \notin SAFE_MODULES
    \/ node.kind = "Call" /\ node.name \in dangerous_funcs
    \/ node.kind = "Attribute" /\ node.name \in dangerous_attrs

\* _is_safe_code, lines 207-256: every node of the tree is looked at
is_safe_code(code, allow_imports) ==
    \A k \in 1..Len(code) : ~node_is_unsafe(code[k], allow_imports)

\* safe_import of _create_restricted_globals, lines 274-278, followed by the
\* interpreter's import: TRUE when the module object is returned
safe_import(module, allow_imports) ==
    /\ allow_imports
    /\ FirstPart(module) \in SAFE_MODULES
    /\ Len(module) = 1
    /\ FirstPart(module) \in ExistingModules

\* exec of one statement against the restricted globals: whether it raises,
\* and the modules it binds in the program's namespace
exec_statement(node, allow_imports) ==
    CASE node.kind = "Import" ->
           IF safe_import(node.module, allow_imports)
           THEN [raises |-> FALSE, binds |-> {FirstPart(node.module)}]
           ELSE [raises |-> TRUE, binds |-> {}]
      [] node.kind = "ImportFrom" ->
           IF /\ node.level = 0
              /\ safe_import(node.module, allow_imports)
              /\ HasAttr(node.module, node.name)
           THEN [raises |-> FALSE,
                 binds |-> {ModuleOfAttr(node.module, node.name)} \ {"none"}]
           ELSE [raises |-> TRUE, binds |-> {}]
      [] node.kind \in {"Call", "Name"} ->
           [raises |-> node.name \notin SAFE_BUILTINS, binds |-> {}]
      [] OTHER -> [raises |-> FALSE, binds |-> {}]

\* exec(compiled_code, restricted_globals), line 149: the statements run in
\* order until one raises
RECURSIVE exec_from(_, _, _, _)
exec_from(code, k, imported, allow_imports) ==
    IF k > Len(code)
    THEN Run(code, TRUE, Len(code), imported, TRUE)
    ELSE LET r == exec_statement(code[k], allow_imports)
         IN  IF r.raises
             THEN Run(code, TRUE, k, imported, FALSE)
             ELSE exec_from(code, k + 1, imported \cup r.binds, allow_imports)

\* _execute_python, lines 113-205
execute_python(code, allow_imports) ==
    IF ~is_safe_code(code, allow_imports)
    THEN Run(code, TRUE, 0, {}, FALSE)
    ELSE exec_from(code, 1, {}, allow_imports)

\* CodeExecutorTool.__init__, lines 42-59, and the code of the call to come
InitSandbox ==
    /\ OnlySandbox
    /\ \E allow_imports \in BOOLEAN, code \in Programs :
         sandbox = [allow_imports |-> allow_imports,
                    run |-> Run(code, FALSE, 0, {}, FALSE)]

\* CodeExecutorTool.execute, lines 89-111, for a non-empty python program
ExecutePython ==
    /\ ~sandbox.run.ran
    /\ sandbox' = [sandbox EXCEPT
                     !.run = execute_python(sandbox.run.code, sandbox.allow_imports)]
    /\ UNCHANGED BesideSandbox

NextSandbox == ExecutePython

SpecSandbox == InitSandbox /\ [][NextSandbox]_vars

\* ---------------------------------------------------------- CalculatorTool
MaxDepth == 1

\* the classes of CalculatorTool.SAFE_OPERATORS, lines 24-34
SAFE_OPERATORS == {"Add", "Sub", "Mult", "Div", "FloorDiv", "Mod", "Pow", "USub", "UAdd"}

\* the names of CalculatorTool.SAFE_FUNCTIONS, lines 37-65
SAFE_FUNCTIONS == {"abs", "round", "min", "max", "sum", "sqrt", "sin", "cos", "tan",
                   "asin", "acos", "atan", "sinh", "cosh", "tanh", "log", "log10",
                   "log2", "exp", "pow", "ceil", "floor", "factorial", "gcd",
                   "degrees", "radians"}

\* the names of CalculatorTool.SAFE_CONSTANTS, lines 68-73
SAFE_CONSTANTS == {"pi", "e", "tau", "inf"}

\* the leaves of the expressions: 0, 1, 'a', pi, x, and `lambda: 0` as one node
Leaves ==
    {Expr("Constant", "0", <<>>), Expr("Constant", "1", <<>>),
     Expr("Constant", "'a'", <<>>), Expr("Name", "pi", <<>>),
     Expr("Name", "x", <<>>), Expr("Lambda", "", <<>>)}

\* -e, not e;  l + r, l / r, l ^ r;  abs(e), open(e), and a call of an
\* attribute such as math.sqrt(e);  [e]
RECURSIVE Expressions(_)
Expressions(depth) ==
    IF depth = 0
    THEN Leaves
    ELSE LET sub == Expressions(depth - 1)
         IN  Leaves
             \cup {Expr("UnaryOp", op, <<e>>) : op \in {"USub", "Not"}, e \in sub}
             \cup {Expr("BinOp", op, <<l, r>>) :
                     op \in {"Add", "Div", "BitXor"}, l \in sub, r \in sub}
             \cup {Expr("Call", f, <<e>>) : f \in {"abs", "open"}, e \in sub}
             \cup {Expr("CallAttribute", "sqrt", <<e>>) : e \in sub}
             \cup {Expr("List", "", <<e>>) : e \in sub}

\* a value of the evaluation, as far as the outcome depends on it: its type
\* and, for a number, whether it is zero
Value(type, zero) == [raises |-> "none", type |-> type, zero |-> zero]

Raise(exception) == [raises |-> exception, type |-> "none", zero |-> FALSE]

\* node.value of an ast.Constant, line 157
ConstantValue(literal) ==
    CASE literal = "0" -> Value("num", TRUE)
      [] literal = "1" -> Value("num", FALSE)
      [] OTHER -> Value("str", FALSE)

\* SAFE_OPERATORS[op_type](left, right), line 174, for + and /
apply_binary(op, left, right) ==
    CASE op = "Add" /\ left.type = "num" /\ right.type = "num" ->
           Value("num", left.zero /\ right.zero)
      [] op = "Add" /\ left.type = right.type -> Value(left.type, FALSE)
      [] op = "Div" /\ left.type = "num" /\ right.type = "num" ->
           IF right.zero THEN Raise("ZeroDivisionError") ELSE Value("num", left.zero)
      [] OTHER -> Raise("TypeError")

\* SAFE_OPERATORS[op_type](operand), line 182, for unary minus
apply_unary(op, operand) ==
    IF operand.type = "num" THEN Value("num", operand.zero) ELSE Raise("TypeError")

\* SAFE_FUNCTIONS[func_name](*args), line 196, for abs
apply_function(func_name, arg) ==
    IF arg.type = "num" THEN Value("num", arg.zero) ELSE Raise("TypeError")


\* _eval_node, lines 154-204
RECURSIVE eval_node(_)
eval_node(node) ==
    CASE node.kind = "Constant" -> ConstantValue(node.op)
      [] node.kind = "Name" ->
           IF node.op \in SAFE_CONSTANTS THEN Value("num", FALSE) ELSE Raise("ValueError")
      [] node.kind = "BinOp" ->
           IF node.op \notin SAFE_OPERATORS
           THEN Raise("ValueError")
           ELSE LET left == eval_node(node.args[1])
                IN  IF left.raises # "none"
                    THEN left
                    ELSE LET right == eval_node(node.args[2])
                         IN  IF right.raises # "none"
                             THEN right
                             ELSE apply_binary(node.op, left, right)
      [] node.kind = "UnaryOp" ->
           IF node.op \notin SAFE_OPERATORS
           THEN Raise("ValueError")
           ELSE LET operand == eval_node(node.args[1])
                IN  IF operand.raises # "none"
                    THEN operand
                    ELSE apply_unary(node.op, operand)
      [] node.kind = "CallAttribute" -> Raise("ValueError")
      [] node.kind = "Call" ->
           IF node.op \notin SAFE_FUNCTIONS
           THEN Raise("ValueError")
           ELSE LET arg == eval_node(node.args[1])
                IN  IF arg.raises # "none"
                    THEN arg
                    ELSE apply_function(node.op, arg)
      [] node.kind = "List" ->
           LET elt == eval_node(node.args[1])
           IN  IF elt.raises # "none" THEN elt ELSE Value("list", FALSE)
      [] OTHER -> Raise("ValueError")

\* the expression of the call to come, already parsed (line 147)
InitCalculator ==
    /\ OnlyCalculator
    /\ \E expression \in Expressions(MaxDepth) :
         calculator = Evaluation(expression, FALSE, FALSE, "none")

\* CalculatorTool.execute, lines 99-129: every exception of the evaluation
\* becomes a failed result
CalculatorExecute ==
    /\ ~calculator.evaluated
    /\ LET value == eval_node(calculator.expression)
       IN  calculator' = Evaluation(calculator.expression, TRUE,
                                    value.raises = "none", value.raises)
    /\ UNCHANGED BesideCalculator

NextCalculator == CalculatorExecute

SpecCalculator == InitCalculator /\ [][NextCalculator]_vars

\* ------------------------------------------- usage of a converted response
MaxCount == 2

\* response["usage"][key], a KeyError when the key is omitted
Subscript(count) ==
    IF count.present THEN [raises |-> "none", n |-> count.n]
    ELSE [raises |-> "KeyError", n |-> 0]

\* metadata.get(key, 0)
GetOrZero(count) == IF count.present THEN count.n ELSE 0

\* the three subscripts of the OpenAI and Grok adapters, evaluated in order
usage_by_subscripts(u) ==
    LET p == Subscript(u.prompt)
        c == Subscript(u.completion)
        t == Subscript(u.total)
    IN  IF p.raises # "none" \/ c.raises # "none" \/ t.raises # "none"
        THEN [raises |-> "KeyError", usage |-> NoUsage]
        ELSE [raises |-> "none", usage |-> LLMUsage(p.n, c.n, t.n)]

\* AnthropicProvider._convert_response, lines 208-215
usage_anthropic(u) ==
    LET p == Subscript(u.prompt)
        c == Subscript(u.completion)
    IN  IF p.raises # "none" \/ c.raises # "none"
        THEN [raises |-> "KeyError", usage |-> NoUsage]
        ELSE [raises |-> "none", usage |-> LLMUsage(p.n, c.n, p.n + c.n)]

\* GeminiProvider._convert_response, lines 209-217
usage_gemini(u) ==
    [raises |-> "none",
     usage |-> LLMUsage(GetOrZero(u.prompt), GetOrZero(u.completion), GetOrZero(u.total))]

\* "Extract usage" of the _convert_response of each adapter
convert_usage(of, u) ==
    IF ~u.present
    THEN [raises |-> "none", usage |-> NoUsage]
    ELSE CASE of \in {"openai", "grok"} -> usage_by_subscripts(u)
           [] of = "anthropic" -> usage_anthropic(u)
           [] of = "gemini" -> usage_gemini(u)

\* the usage objects of the backend responses: absent, or with both counts
\* and with the total either reported as their sum or omitted
BackendUsages ==
    {BackendUsage(FALSE, Omitted, Omitted, Omitted)}
    \cup {BackendUsage(TRUE, Count(p), Count(c), t) :
            p \in 0..MaxCount, c \in 0..MaxCount, t \in {Omitted}}
    \cup {BackendUsage(TRUE, Count(p), Count(c), Count(p + c)) :
            p \in 0..MaxCount, c \in 0..MaxCount}

\* an adapter and the response of its backend
InitConversion ==
    /\ OnlyConversion
    /\ \E of \in Providers, u \in BackendUsages :
         conversion = Conversion(of, u, FALSE, "none", NoUsage)

\* _convert_response of the adapter on the response
ConvertResponse ==
    /\ ~conversion.converted
    /\ LET r == convert_usage(conversion.of, conversion.response_usage)
       IN  conversion' = Conversion(conversion.of, conversion.response_usage,
                                    TRUE, r.raises, r.usage)
    /\ UNCHANGED BesideConversion

NextConversion == ConvertResponse

SpecConversion == InitConversion /\ [][NextConversion]_vars

\* ------------------------------------------------------- LLMProviderManager
MaxFileLen == 2

\* provider IDs: '', 'a', 'b'
ProviderIds == {<<>>, <<"a">>, <<"b">>}

\* the values of ProviderType, lines 19-24
ProviderTypes == {"openai", "anthropic", "grok", "gemini"}

\* d[key] = value
DictSet(d, key, value) ==
    [x \in DOMAIN d \cup {key} |-> IF x = key THEN value ELSE d[x]]

\* del d[key]
DictDel(d, key) == [x \in DOMAIN d \ {key} |-> d[x]]

\* the outcome of a method of the manager
ManagerOutcome(raises, providers, default_provider) ==
    [raises |-> raises, providers |-> providers, default_provider |-> default_provider]

\* add_provider without the check of line 129
add_provider_overwrite(providers, default_provider, name, provider_type, set_as_default) ==
    ManagerOutcome(FALSE, DictSet(providers, name, provider_type),
                   IF set_as_default \/ ~Truthy(default_provider)
                   THEN Some(name) ELSE default_provider)

\* LLMProviderManager.add_provider, lines 106-144
add_provider(providers, default_provider, name, provider_type, set_as_default) ==
    IF name \in DOMAIN providers
    THEN ManagerOutcome(TRUE, providers, default_provider)
    ELSE ManagerOutcome(FALSE, DictSet(providers, name, provider_type),
                        IF set_as_default \/ ~Truthy(default_provider)
                        THEN Some(name) ELSE default_provider)

\* LLMProviderManager.get_provider, lines 146-167: TRUE when it raises
get_provider(providers, default_provider, name) ==
    IF ~name.some
    THEN \/ ~Truthy(default_provider)
         \/ default_provider.text \notin DOMAIN providers
    ELSE name.text \notin DOMAIN providers

\* a provider entry of the YAML file, config_loader.py lines 14-31, with
\* whether its environment variable holds a key
ProviderConfig(provider_id, provider_type, enabled, has_api_key) ==
    [provider_id |-> provider_id, provider_type |-> provider_type,
     enabled |-> enabled, has_api_key |-> has_api_key]

\* a usable entry per ID, and for 'a' a disabled entry, one without a key
\* and one of an unknown type
ProviderConfigs ==
    {ProviderConfig(id, "openai", TRUE, TRUE) : id \in ProviderIds}
    \cup {ProviderConfig(<<"a">>, "openai", FALSE, TRUE),
          ProviderConfig(<<"a">>, "openai", TRUE, FALSE),
          ProviderConfig(<<"a">>, "bogus", TRUE, TRUE)}

ConfigFiles == UNION {[1..n -> ProviderConfigs] : n \in 0..MaxFileLen}

\* the loop of initialize_providers_from_yaml, lines 323-367, from entry k on
RECURSIVE initialize_loop(_, _, _, _, _, _)
initialize_loop(file, default_provider_id, k, providers, default_provider, initialized) ==
    IF k > Len(file)
    THEN [providers |-> providers, default_provider |-> default_provider,
          initialized |-> initialized]
    ELSE LET c == file[k]
             added == add_provider(providers, default_provider, c.provider_id,
                                   c.provider_type,
                                   \/ Some(c.provider_id) = default_provider_id
                                   \/ Len(initialized) = 0)
         IN  IF \/ ~c.enabled
                \/ ~c.has_api_key
                \/ c.provider_type \notin ProviderTypes
                \/ added.raises
             THEN initialize_loop(file, default_provider_id, k + 1, providers,
                                  default_provider, initialized)
             ELSE initialize_loop(file, default_provider_id, k + 1, added.providers,
                                  added.default_provider,
                                  Append(initialized, c.provider_id))

\* a fresh manager
InitManager ==
    /\ OnlyManager
    /\ manager = NewManager

AddProvider ==
    \E name \in ProviderIds, provider_type \in {"openai", "anthropic"},
       set_as_default \in BOOLEAN :
        LET r == add_provider(manager.providers, manager.default_provider, name,
                              provider_type, set_as_default)
        IN  /\ manager' = [providers |-> r.providers,
                           default_provider |-> r.default_provider,
                           last |-> ManagerCall("add_provider", Some(name), r.raises,
                                                NoneVal, <<>>)]
            /\ UNCHANGED BesideManager

GetProvider ==
    \E name \in {NoneVal} \cup {Some(id) : id \in ProviderIds} :
        /\ manager' = [manager EXCEPT
                         !.last = ManagerCall("get_provider", name,
                                              get_provider(manager.providers,
                                                           manager.default_provider,
                                                           name),
                                              NoneVal, <<>>)]
        /\ UNCHANGED BesideManager

\* LLMProviderManager.remove_provider, lines 169-174
RemoveProvider ==
    \E name \in ProviderIds :
        /\ manager' =
             [providers |-> DictDel(manager.providers, name),
              default_provider |->
                  IF name \in DOMAIN manager.providers
                     /\ manager.default_provider = Some(name)
                  THEN NoneVal ELSE manager.default_provider,
              last |-> ManagerCall("remove_provider", Some(name), FALSE, NoneVal, <<>>)]
        /\ UNCHANGED BesideManager

\* LLMProviderManager.set_default_provider, lines 176-180
SetDefaultProvider ==
    \E name \in ProviderIds :
        /\ manager' =
             [manager EXCEPT
                !.default_provider =
                    IF name \in DOMAIN manager.providers THEN Some(name) ELSE @,
                !.last = ManagerCall("set_default_provider", Some(name),
                                     name \notin DOMAIN manager.providers,
                                     NoneVal, <<>>)]
        /\ UNCHANGED BesideManager

\* initialize_providers_from_yaml, lines 270-374, on the global manager
InitializeProvidersFromYaml ==
    \E file \in ConfigFiles,
       default_provider_id \in {NoneVal} \cup {Some(id) : id \in ProviderIds} :
        LET r == initialize_loop(file, default_provider_id, 1, manager.providers,
                                 manager.default_provider, <<>>)
        IN  /\ manager' = [providers |-> r.providers,
                           default_provider |-> r.default_provider,
                           last |-> ManagerCall("initialize_providers_from_yaml",
                                                NoneVal, FALSE, default_provider_id,
                                                r.initialized)]
            /\ UNCHANGED BesideManager

NextManager ==
    \/ AddProvider
    \/ GetProvider
    \/ RemoveProvider
    \/ SetDefaultProvider
    \/ InitializeProvidersFromYaml

SpecManager == InitManager /\ [][NextManager]_vars

\* ------------------------------------------------------------- ToolRegistry
\* two names, and two tool instances that can carry either
RegistryToolNames == {"x", "y"}

ToolInstances == {"t1", "t2"}

\* the category argument: None, '', and two names
Categories == {NoneVal, Some(<<>>), Some(<<"c">>), Some(<<"d">>)}

\* the outcome of a method of the registry
RegistryOutcome(returned, tools, categories) ==
    [returned |-> returned, tools |-> tools, categories |-> categories]

\* the name appended whether or not the list holds it
add_to_category_again(categories, category, tool_name) ==
    IF ~Truthy(category)
    THEN categories
    ELSE DictSet(categories, category.text,
                 Append(IF category.text \in DOMAIN categories
                        THEN categories[category.text] ELSE <<>>, tool_name))

\* lines 47-51: the name is appended to the list of the category once
add_to_category(categories, category, tool_name) ==
    IF ~Truthy(category)
    THEN categories
    ELSE LET listed == IF category.text \in DOMAIN categories
                       THEN categories[category.text] ELSE <<>>
         IN  DictSet(categories, category.text,
                     IF \E k \in 1..Len(listed) : listed[k] = tool_name
                     THEN listed ELSE Append(listed, tool_name))

\* register that takes every call as one with override=True
register_alwaysOverride(tools, categories, tool_name, tool, category, override) ==
    RegistryOutcome(TRUE, DictSet(tools, tool_name, tool),
                    add_to_category(categories, category, tool_name))

\* ToolRegistry.register, lines 18-53
register(tools, categories, tool_name, tool, category, override) ==
    IF tool_name \in DOMAIN tools /\ ~override
    THEN RegistryOutcome(FALSE, tools, categories)
    ELSE RegistryOutcome(TRUE, DictSet(tools, tool_name, tool),
                         add_to_category(categories, category, tool_name))

\* lines 72-73: `if tool_name in tools: tools.remove(tool_name)`, which takes
\* out the first occurrence
ListRemove(list, tool_name) ==
    IF \A k \in 1..Len(list) : list[k] # tool_name THEN list
    ELSE LET first == CHOOSE k \in 1..Len(list) :
                         /\ list[k] = tool_name
                         /\ \A j \in 1..(k - 1) : list[j] # tool_name
         IN  SubSeq(list, 1, first - 1) \o SubSeq(list, first + 1, Len(list))

\* ToolRegistry.unregister, lines 55-77
unregister(tools, categories, tool_name) ==
    IF tool_name \notin DOMAIN tools
    THEN RegistryOutcome(FALSE, tools, categories)
    ELSE RegistryOutcome(TRUE, DictDel(tools, tool_name),
                         [c \in DOMAIN categories |-> ListRemove(categories[c], tool_name)])

\* a fresh registry
InitRegistry ==
    /\ OnlyRegistry
    /\ registry = NewRegistry

Register ==
    \E tool_name \in RegistryToolNames, tool \in ToolInstances,
       category \in Categories, override \in BOOLEAN :
        LET r == register(registry.tools, registry.categories, tool_name, tool,
                          category, override)
        IN  /\ registry' = [tools |-> r.tools, categories |-> r.categories,
                            last |-> RegistryCall("register", tool_name, tool, category,
                                                  override, r.returned)]
            /\ UNCHANGED BesideRegistry

Unregister ==
    \E tool_name \in RegistryToolNames :
        LET r == unregister(registry.tools, registry.categories, tool_name)
        IN  /\ registry' = [tools |-> r.tools, categories |-> r.categories,
                            last |-> RegistryCall("unregister", tool_name, "none",
                                                  NoneVal, FALSE, r.returned)]
            /\ UNCHANGED BesideRegistry

\* ToolRegistry.clear, lines 160-164: both dicts emptied
Clear ==
    /\ registry' = [tools |-> EmptyDict, categories |-> EmptyDict,
                    last |-> RegistryCall("clear", "none", "none", NoneVal, FALSE, TRUE)]
    /\ UNCHANGED BesideRegistry

NextRegistry ==
    \/ Register
    \/ Unregister
    \/ Clear

SpecRegistry == InitRegistry /\ [][NextRegistry]_vars

\* ------------------------------------------- stream_complete and complete
MaxGroups == 2

\* the pieces of text a backend sends: '', 'a', 'b'
Pieces == {<<>>, <<"a">>, <<"b">>}

\* one or two pieces sent together
Groups == {<<p>> : p \in Pieces} \cup {<<p, q>> : p \in Pieces, q \in Pieces}

GroupLists == UNION {[1..n -> Groups] : n \in 1..MaxGroups}

\* the pieces of some groups one after the other
RECURSIVE Flatten(_)
Flatten(groups) ==
    IF groups = <<>> THEN <<>> ELSE Head(groups) \o Flatten(Tail(groups))

\* the texts of some pieces joined
RECURSIVE Join(_)
Join(pieces) ==
    IF pieces = <<>> THEN <<>> ELSE Head(pieces) \o Join(Tail(pieces))

\* LLMStreamChunk as far as the claims go: delta.get("content") and
\* finish_reason ("none" for None)
StreamChunk(content, finish_reason) == [content |-> content, finish_reason |-> finish_reason]

\* OpenAIProvider.stream_complete, lines 203-216, and GrokProvider's: the
\* backend sends a chunk per piece with delta {"content": piece} and a last
\* chunk with delta {} and finish_reason "stop"; the delta is passed on
stream_openai(groups) ==
    LET pieces == Flatten(groups)
    IN  [k \in 1..Len(pieces) |-> StreamChunk(Some(pieces[k]), "none")]
        \o <<StreamChunk(NoneVal, "stop")>>

\* AnthropicProvider.stream_complete, lines 269-297: the backend sends a
\* content_block_delta per piece with delta {"type": "text_delta", "text":
\* piece} and a message_stop at the end; the delta is passed on as it is, so
\* it has no "content"
stream_anthropic(groups) ==
    LET pieces == Flatten(groups)
    IN  [k \in 1..Len(pieces) |-> StreamChunk(NoneVal, "none")]
        \o <<StreamChunk(NoneVal, "stop")>>

\* GeminiProvider.stream_complete, lines 241-265: the backend sends a chunk
\* per group with the pieces as parts, the last with finishReason "STOP"; the
\* text of the first part is the content
stream_gemini(groups) ==
    [k \in 1..Len(groups) |->
        StreamChunk(Some(groups[k][1]), IF k = Len(groups) THEN "STOP" ELSE "none")]

\* stream_complete of the adapter on the fixture
stream_complete(fixture) ==
    CASE fixture.of \in {"openai", "grok"} ->
           [raised |-> FALSE, chunks |-> stream_openai(fixture.groups)]
      [] fixture.of = "anthropic" ->
           IF fixture.int_to_str
           THEN [raised |-> FALSE, chunks |-> stream_anthropic(fixture.groups)]
           ELSE [raised |-> TRUE, chunks |-> <<>>]
      [] fixture.of = "gemini" ->
           [raised |-> FALSE, chunks |-> stream_gemini(fixture.groups)]

\* message.content of _convert_response on the non-stream answer: the
\* OpenAI and Grok adapters pass message["content"] on, the Anthropic and
\* Gemini adapters join the text blocks or parts and give None for ''
complete_content(fixture) ==
    LET text == Join(Flatten(fixture.groups))
    IN  IF fixture.of \in {"openai", "grok"}
        THEN Some(text)
        ELSE IF text # <<>> THEN Some(text) ELSE NoneVal

\* an adapter and the answer of its backend
InitStreaming ==
    /\ OnlyStreaming
    /\ \E of \in Providers, groups \in GroupLists, int_to_str \in BOOLEAN :
         streaming = Answers(Fixture(of, groups, int_to_str), FALSE, FALSE, <<>>, NoneVal)

\* the fixture is answered by stream_complete and by complete
AnswerBothWays ==
    /\ ~streaming.made
    /\ LET s == stream_complete(streaming.fixture)
       IN  streaming' = Answers(streaming.fixture, TRUE, s.raised, s.chunks,
                                complete_content(streaming.fixture))
    /\ UNCHANGED BesideStreaming

NextStreaming == AnswerBothWays

SpecStreaming == InitStreaming /\ [][NextStreaming]_vars

\* ------------------------------------ one adapter instance, several tasks
\* ClientSessions made in one run
MaxEntries == 3

Tasks == {"t1", "t2"}

\* self.session as the request methods see it
CurrentClient(a) == IF a.session = 0 THEN "none" ELSE a.clients[a.session]

\* BaseLLMProvider.__aenter__, base.py:27-32: a new ClientSession is made and
\* stored in self.session, whatever was there
aenter(a, t) ==
    [a EXCEPT !.clients = Append(a.clients, "open"),
              !.session = Len(a.clients) + 1,
              !.inside = a.inside \cup {t}]

\* BaseLLMProvider.__aexit__, base.py:34-37: self.session is closed if set
aexit(a, t) ==
    [a EXCEPT !.clients = IF a.session = 0 THEN a.clients
                          ELSE [a.clients EXCEPT ![a.session] = "closed"],
              !.inside = a.inside \ {t}]

\* complete down to session.post: no session is the precondition error, a
\* closed ClientSession raises RuntimeError("Session is closed")
request_outcome(client) ==
    IF SessionMissing("complete", client) THEN "precondition_error"
    ELSE IF client = "closed" THEN "session_closed_error"
    ELSE "response"

InitShared ==
    /\ OnlyShared
    /\ SharedIdle

\* a task reaches `async with adapter:`
SharedEnter ==
    /\ Len(shared.clients) < MaxEntries
    /\ \E t \in Tasks \ shared.inside : shared' = aenter(shared, t)
    /\ UNCHANGED BesideShared

\* a task leaves its `async with adapter:` block
SharedExit ==
    /\ \E t \in shared.inside : shared' = aexit(shared, t)
    /\ UNCHANGED BesideShared

\* a task calls complete on the adapter
SharedRequest ==
    /\ \E t \in Tasks :
         shared' = [shared EXCEPT !.last =
                       [task |-> t, in_scope |-> t \in shared.inside,
                        outcome |-> request_outcome(CurrentClient(shared))]]
    /\ UNCHANGED BesideShared

NextShared ==
    \/ SharedEnter
    \/ SharedExit
    \/ SharedRequest

SpecShared == InitShared /\ [][NextShared]_vars

\* --------------------------------------------- the worker pool of one tool
\* invocations of the tool in one run
MaxInvocations == 5

\* bodies that hold a worker thread
Running(p) == {i \in 1..Len(p.body) : p.body[i] = "running"}

Queued(p) == {i \in 1..Len(p.body) : p.body[i] = "queued"}

\* ThreadPoolExecutor.submit through loop.run_in_executor, base.py:210-216:
\* the body starts on a free worker, or waits in the queue of the pool
submit(p) ==
    Pool(Append(p.body, IF Cardinality(Running(p)) < max_workers THEN "running" ELSE "queued"),
         Append(p.call, "pending"))

\* asyncio.wait_for gives up on invocation i (base.py:190-204): the awaited
\* future is cancelled, which removes a body still in the queue and does
\* nothing to a body that a worker thread is running
wait_for_times_out(p, i) ==
    Pool([p.body EXCEPT ![i] = IF @ = "queued" THEN "cancelled" ELSE @],
         [p.call EXCEPT ![i] = "timed_out"])

\* the body of invocation i returns or raises in its thread: the worker takes
\* the oldest body of the queue, and a call still waiting gets its result
body_ends(p, i) ==
    LET freed == [p.body EXCEPT ![i] = "finished"]
        next == IF Queued(p) = {} THEN 0
                ELSE CHOOSE j \in Queued(p) : \A k \in Queued(p) : j <= k
    IN  Pool(IF next = 0 THEN freed ELSE [freed EXCEPT ![next] = "running"],
             [p.call EXCEPT ![i] = IF @ = "pending" THEN "completed" ELSE @])

InitPool ==
    /\ OnlyPool
    /\ PoolIdle

\* safe_execute is called on the tool: execute hands its body to _run_sync
Invoke ==
    /\ Len(pool.body) < MaxInvocations
    /\ pool' = submit(pool)
    /\ UNCHANGED BesidePool

TimesOut ==
    /\ \E i \in 1..Len(pool.call) :
         /\ pool.call[i] = "pending"
         /\ pool' = wait_for_times_out(pool, i)
    /\ UNCHANGED BesidePool

BodyEnds ==
    /\ \E i \in Running(pool) : pool' = body_ends(pool, i)
    /\ UNCHANGED BesidePool

NextPool ==
    \/ Invoke
    \/ TimesOut
    \/ BodyEnds

SpecPool == InitPool /\ [][NextPool]_vars

\* ------------------------------------------------------------ properties
AnswerSteps == SelectSeq(steps, IsAnswerStep)

HasAnswerStep == AnswerSteps # <<>>

ContainsStopPhrase(text) == \E k \in 1..Len(StopPhrases) : Contains(Lower(StopPhrases[k]), Lower(text))

\* the tool message at position i of msgs answers a call of an earlier assistant message
Answered(msgs, i) ==
    \E j \in 1..(i - 1) :
        /\ msgs[j].role = "assistant"
        /\ \E c \in 1..Len(msgs[j].tool_calls) : msgs[j].tool_calls[c].id = msgs[i].tool_call_id

ToolMessagesAnswered(msgs) == \A i \in 1..Len(msgs) : msgs[i].role = "tool" => Answered(msgs, i)

\* C1: solve returns stop_reason COMPLETED (success true, chain.status
\* completed) only if an answer step was appended and chain.final_answer is set.
C1_CompletedOnlyWithAnswer ==
    (result.returned /\ result.stop_reason = "completed")
        => (HasAnswerStep /\ final_answer.some)

\* C2: when all max_iterations loop iterations were performed without an
\* answer, whatever the turns contained, solve returns MAX_ITERATIONS and the
\* chain is failed.
C2_AllIterationsGiveMaxIterations ==
    (result.returned /\ iterations_done = max_iterations /\ ~HasAnswerStep)
        => (result.stop_reason = "max_iterations" /\ chain_status = "failed")

\* C3: once the chain holds at least max_tool_calls tool_call steps and no
\* answer was extracted, no further provider request is issued and solve
\* returns MAX_TOOL_CALLS (a run ended by an exception is left aside).
C3_CapStopsWithMaxToolCalls ==
    /\ [][get_tool_calls_count(steps) >= max_tool_calls
            => provider_requests' = provider_requests]_vars
    /\ []((result.returned /\ get_tool_calls_count(steps) >= max_tool_calls
             /\ ~HasAnswerStep /\ result.stop_reason \notin {"error", "timeout"})
            => result.stop_reason = "max_tool_calls")

\* C4: when every provider request and tool call returns or raises, solve
\* returns a result, and it never issues more than max_iterations provider
\* requests.
C4_TerminatesWithinMaxIterations ==
    /\ <>(result.returned)
    /\ [](provider_requests <= max_iterations)

C4_Witness ==
    /\ result.returned
    /\ max_iterations = MaxIterations
    /\ provider_requests = max_iterations

\* C5: when the assistant text of a response contains a stop phrase, whatever
\* follows the phrase and whether or not tool calls come with it, that
\* iteration appends an answer step, sets chain.final_answer and ends the loop
\* with COMPLETED.
C5_StopPhraseEndsLoop ==
    (last_content.some /\ ContainsStopPhrase(last_content.text))
        => (result.returned /\ result.stop_reason = "completed"
            /\ HasAnswerStep /\ final_answer.some)

\* C6: a returned chain has at most one answer step; if it has one,
\* chain.final_answer is that step's content, the status is completed and
\* completed_at is set.
C6_AtMostOneAnswer ==
    result.returned =>
        /\ Len(AnswerSteps) <= 1
        /\ HasAnswerStep =>
             /\ final_answer = AnswerSteps[1].content
             /\ chain_status = "completed"
             /\ completed_at

C6_Witness ==
    /\ result.returned
    /\ HasAnswerStep
    /\ get_tool_calls_count(steps) > 0

\* C7: at every point of solve the chain holds at most max_tool_calls
\* tool_call steps.
C7_ToolCallsWithinCap == get_tool_calls_count(steps) <= max_tool_calls

\* C8: in the conversation kept by the engine, and in every message list it
\* submits, every tool message is preceded by an assistant message carrying a
\* tool call with the same id.
C8_ToolMessagesHaveTheirCall ==
    /\ ToolMessagesAnswered(conv)
    /\ ToolMessagesAnswered(last_request)

\* C9: the tool-call ids the adapter produces over the responses of one chain
\* are pairwise distinct, so no two tool messages share a tool_call_id.
C9_ToolCallIdsDistinct ==
    /\ \A i, j \in 1..Len(steps) :
          (i # j /\ IsToolCallStep(steps[i]) /\ IsToolCallStep(steps[j]))
              => steps[i].tool_call_id # steps[j].tool_call_id
    /\ \A i, j \in 1..Len(conv) :
          (i # j /\ conv[i].role = "tool" /\ conv[j].role = "tool")
              => conv[i].tool_call_id # conv[j].tool_call_id

\* C10: complete and stream_complete called on an adapter that is not inside
\* its HTTP scope (never entered, or entered and exited) fail with the
\* precondition error, and no HTTP request is sent.
C10_OutOfScopeIsPreconditionError ==
    (last_call.op # "none" /\ ~InScope(last_call.scope))
        => (last_call.outcome = "precondition_error" /\ ~last_call.sent)

\* C12: if config.timeout elapses at any point while solve is running, solve
\* exits with stop_reason TIMEOUT.
C12_DeadlineGivesTimeout ==
    (result.returned /\ deadline_passed) => result.stop_reason = "timeout"

\* C13: when the task running solve is cancelled while a provider request or
\* a tool call is in flight, the chain built so far is handed to the caller,
\* with status failed and stop reason TIMEOUT or ERROR.
C13_CancelledChainIsFailed ==
    pc = "cancelled"
        => (result.returned /\ chain_status = "failed" /\ completed_at
            /\ result.stop_reason \in {"timeout", "error"})

\* the tool_call steps of the chain
ToolCallSteps == SelectSeq(steps, IsToolCallStep)

\* calls of the turn being handled whose tool_call step has been appended
CallsBegun == IF pc = "await_tool" THEN call_idx ELSE call_idx - 1

SystemMessages(msgs) == SelectSeq(msgs, IsSystem)

NonSystemMessages(msgs) == SelectSeq(msgs, IsNotSystem)

\* C14: after any sequence of ConversationManager operations the log holds at
\* most one system message and, when there is one, it is at index 0.
C14_OneSystemMessageFirst ==
    /\ Len(SystemMessages(cm_messages)) <= 1
    /\ SystemMessages(cm_messages) # <<>> => IsSystem(cm_messages[1])

\* the last n entries of what was appended (all of them when there are fewer)
MostRecent(n) ==
    IF Len(cm_appended) <= n THEN cm_appended
    ELSE SubSeq(cm_appended, Len(cm_appended) - n + 1, Len(cm_appended))

C16_TokensWithinCap ==
    (cm_last_op.op = "append" /\ cm_max_tokens > 0)
        => estimate_tokens(cm_messages) <= cm_max_tokens

\* C11: execute_tool never raises: an unknown tool name, a validation miss, a
\* timeout and an exception of the tool body (and an exception escaping
\* safe_execute) each give a ToolResult with success false and an error text.
C11_ExecuteToolNeverRaises ==
    /\ \A i \in 1..Len(exec_tasks) :
          exec_tasks[i].done =>
              /\ ~exec_tasks[i].raised
              /\ exec_tasks[i].outcome # "ok" =>
                    (~exec_tasks[i].result.success /\ exec_tasks[i].result.error # "none")
    /\ ~exec_returned.raised

C11_Witness ==
    /\ Len(exec_tasks) = 2
    /\ exec_tasks[1].done /\ exec_tasks[1].outcome = "validate_raises"
    /\ exec_tasks[2].done /\ exec_tasks[2].outcome = "not_found"
    /\ Len(exec_log) >= 3
    /\ \E i, j, k \in 1..Len(exec_log) :
          /\ exec_log[i].tool_name \in Registered /\ ~exec_log[i].success
          /\ exec_log[j].tool_name \notin Registered
          /\ exec_log[k].success

\* the last n records made since the history was last cleared
LatestRecords(n) ==
    IF Len(exec_log) <= n THEN exec_log
    ELSE SubSeq(exec_log, Len(exec_log) - n + 1, Len(exec_log))

\* C17: after any sequence of executor calls the history holds at most
\* max_history_size records (1,000 in the program), and they are the most
\* recently recorded ones in recording order.
C17_HistoryKeepsLatest ==
    /\ Len(exec_history) <= max_history_size
    /\ exec_history = LatestRecords(max_history_size)

C17_Witness ==
    /\ Len(exec_log) > max_history_size
    /\ Len(exec_history) = max_history_size
    /\ exec_history[1].serial > 1

RECURSIVE SumCounts(_, _)
SumCounts(tools_used, names) ==
    IF names = {} THEN 0
    ELSE LET t == CHOOSE x \in names : TRUE
         IN  tools_used[t].count + SumCounts(tools_used, names \ {t})

\* C18: after any sequence of executor calls, clear_history included,
\* get_statistics reports successful + failed = total = number of retained
\* records, every per-tool entry has success + failed = count, and the counts
\* sum to total.
C18_StatisticsAddUp ==
    LET st == get_statistics(exec_history)
    IN  /\ st.total = Len(exec_history)
        /\ st.successful + st.failed = st.total
        /\ \A t \in DOMAIN st.tools_used :
              st.tools_used[t].success + st.tools_used[t].failed = st.tools_used[t].count
        /\ SumCounts(st.tools_used, DOMAIN st.tools_used) = st.total

C18_Witness ==
    LET st == get_statistics(exec_history)
    IN  /\ exec_serial > Len(exec_log)
        /\ st.successful > 0
        /\ st.failed > 0
        /\ Cardinality(DOMAIN st.tools_used) = 2

\* C19: execute_multiple returns exactly one result per input call, and
\* results[i] is the outcome of calls[i], in sequential mode and in parallel
\* mode whatever the order in which the calls completed.
C19_ResultsFollowInputOrder ==
    /\ Len(exec_returned.results) = Len(exec_returned.calls)
    /\ \A i \in 1..Len(exec_returned.calls) :
          exec_returned.results[i].serial = exec_returned.calls[i].serial

\* a parallel batch whose last call completed first has returned
C19_Witness ==
    /\ exec_returned.parallel
    /\ Len(exec_returned.calls) = MaxBatch
    /\ exec_tasks = <<>>
    /\ Len(exec_log) >= MaxBatch
    /\ exec_log[Len(exec_log)].serial = exec_returned.calls[1].serial

\* C21: the step callback is called exactly once for every step appended to
\* the chain, in append order, and an exception it raises never leaves
\* _notify_step, so it changes neither the steps nor the stop reason.
C21_CallbackOncePerStepInOrder ==
    callback # "none" =>
        /\ Len(notified) = Len(steps)
        /\ \A i \in 1..Len(steps) : notified[i] = StepIdent(steps[i])
        /\ ~notify_escaped

C21_Witness ==
    /\ callback = "raises"
    /\ result.returned
    /\ result.stop_reason = "completed"
    /\ Len(steps) >= 4
    /\ Len(notified) = Len(steps)

\* C22: for every filesystem operation, a path that resolves (relative
\* segments, absolute paths and symlinks included) outside the workspace root
\* gives a failed result, and nothing of the filesystem is read or written
\* for it.
C22_EscapingPathRefused ==
    /\ (fs_last.op # "none" /\ fs_last.escapes) =>
          /\ ~fs_last.success
          /\ ~fs_last.touched
          /\ ~fs_last.changed
    /\ ~fs_last.touched_outside
    /\ \A q \in DOMAIN InitialTree :
          ~InWorkspace(q) => (q \in DOMAIN fs_tree /\ fs_tree[q] = InitialTree[q])

\* a write through the symlink that leaves the workspace was refused
C22_Witness ==
    /\ fs_last.op = "write"
    /\ fs_last.escapes
    /\ fs_last.through_link
    /\ ~InWorkspace(fs_link)
    /\ fs_tree # InitialTree

ImportsOutsideAllowList(node) ==
    /\ node.kind \in {"Import", "ImportFrom"}
    /\ \/ node.module # <<>> /\ FirstPart(node.module) \notin SAFE_MODULES
       \/ /\ node.kind = "ImportFrom"
          /\ ModuleOfAttr(node.module, node.name) \notin SAFE_MODULES \cup {"none"}

CallsDangerousName(node) == node.kind = "Call" /\ node.name \in dangerous_funcs

AccessesReflectiveAttr(node) == node.kind = "Attribute" /\ node.name \in dangerous_attrs

\* C23: a program that imports a module outside the allow-list, calls one of
\* the dangerous names or accesses one of the listed reflective dunder
\* attributes is refused by the screening: none of its statements is executed
\* and the result is a failed one.
C23_UnsafeProgramNotRun ==
    (/\ sandbox.run.ran
     /\ \E k \in 1..Len(sandbox.run.code) :
          \/ ImportsOutsideAllowList(sandbox.run.code[k])
          \/ CallsDangerousName(sandbox.run.code[k])
          \/ AccessesReflectiveAttr(sandbox.run.code[k]))
    => (sandbox.run.executed = 0 /\ ~sandbox.run.success)

\* an expression built solely from numeric literals, the operators of the
\* evaluator, calls of allow-listed functions and the constants
RECURSIVE BuiltFromAllowed(_)
BuiltFromAllowed(node) ==
    CASE node.kind = "Constant" -> node.op \in {"0", "1"}
      [] node.kind = "Name" -> node.op \in {"pi", "e", "tau", "inf"}
      [] node.kind \in {"BinOp", "UnaryOp"} ->
           /\ node.op \in {"Add", "Sub", "Mult", "Div", "FloorDiv", "Mod", "Pow",
                           "USub", "UAdd"}
           /\ \A k \in 1..Len(node.args) : BuiltFromAllowed(node.args[k])
      [] node.kind = "Call" ->
           /\ node.op \in SAFE_FUNCTIONS
           /\ \A k \in 1..Len(node.args) : BuiltFromAllowed(node.args[k])
      [] OTHER -> FALSE

\* C24: the evaluator returns success only for expressions built solely from
\* numeric literals, the listed operators, calls of allow-listed functions and
\* the four constants; an expression with any other node or identifier gives
\* a failed result.
C24_SuccessOnlyForAllowed ==
    calculator.evaluated =>
        (calculator.success => BuiltFromAllowed(calculator.expression))

\* C26: for every adapter, when the backend response reports the prompt and
\* completion counts but omits the total, the conversion returns a usage
\* whose total_tokens is prompt_tokens + completion_tokens.
C26_TotalIsSumWhenOmitted ==
    (/\ conversion.converted
     /\ conversion.response_usage.present
     /\ conversion.response_usage.prompt.present
     /\ conversion.response_usage.completion.present
     /\ ~conversion.response_usage.total.present)
    => (/\ conversion.raises = "none"
        /\ ~conversion.usage.none
        /\ conversion.usage.total_tokens =
             conversion.response_usage.prompt.n + conversion.response_usage.completion.n)

\* C27: add_provider with an ID that is already registered raises and leaves
\* the provider map and the default ID as they were; get_provider with an ID
\* that is not registered raises.
C27_DuplicateAddAndUnknownGetFail ==
    [][/\ (/\ manager'.last.op = "add_provider"
           /\ manager'.last.name.text \in DOMAIN manager.providers)
          => (/\ manager'.last.raised
              /\ manager'.providers = manager.providers
              /\ manager'.default_provider = manager.default_provider)
       /\ (/\ manager'.last.op = "get_provider"
           /\ manager'.last.name.some
           /\ manager'.last.name.text \notin DOMAIN manager.providers)
          => manager'.last.raised]_vars

\* a duplicate add_provider was refused by a manager that has a default, and
\* (in another call) an unknown ID was asked for
C27_Witness ==
    /\ manager.last.op = "add_provider"
    /\ manager.last.raised
    /\ manager.last.name.text \in DOMAIN manager.providers
    /\ manager.default_provider.some
    /\ manager.default_provider # manager.last.name

\* C28: after initialize_providers_from_yaml the default provider of the
\* manager is the instance whose ID is default_provider_id when that instance
\* was initialized, and otherwise the first instance of the file that was
\* initialized.
C28_DefaultAfterYaml ==
    (/\ manager.last.op = "initialize_providers_from_yaml"
     /\ manager.last.initialized # <<>>)
    => manager.default_provider =
         IF /\ manager.last.default_provider_id.some
            /\ \E k \in 1..Len(manager.last.initialized) :
                  manager.last.initialized[k] = manager.last.default_provider_id.text
         THEN manager.last.default_provider_id
         ELSE Some(manager.last.initialized[1])

\* C29: register of a tool whose name is already registered returns False
\* and leaves the tool map and the category index as they were when override
\* is false, and puts the tool given in the place of the stored one when
\* override is true.
C29_RegisterDuplicate ==
    [][(/\ registry'.last.op = "register"
        /\ registry'.last.tool_name \in DOMAIN registry.tools)
       => IF registry'.last.override
          THEN registry'.tools[registry'.last.tool_name] = registry'.last.tool
          ELSE /\ ~registry'.last.returned
               /\ registry'.tools = registry.tools
               /\ registry'.categories = registry.categories]_vars

\* a register without override was refused for a name that is held by another
\* instance and listed in a category other than the one given
C29_Witness ==
    /\ registry.last.op = "register"
    /\ ~registry.last.override
    /\ ~registry.last.returned
    /\ registry.tools[registry.last.tool_name] # registry.last.tool
    /\ registry.last.category = Some(<<"d">>)
    /\ <<"d">> \notin DOMAIN registry.categories
    /\ <<"c">> \in DOMAIN registry.categories

\* delta.content of the chunks joined in order; a chunk without it adds nothing
RECURSIVE JoinedDeltas(_)
JoinedDeltas(chunks) ==
    IF chunks = <<>>
    THEN <<>>
    ELSE (IF Head(chunks).content.some THEN Head(chunks).content.text ELSE <<>>)
         \o JoinedDeltas(Tail(chunks))

\* C30: for each adapter, when the stream finishes with stop, the
\* delta.content of its chunks joined in order is the content of the
\* non-stream response of the adapter for the same fixture (None read as '').
C30_StreamEqualsNonStream ==
    (/\ streaming.made
     /\ ~streaming.stream_raised
     /\ streaming.chunks # <<>>
     /\ streaming.chunks[Len(streaming.chunks)].finish_reason = "stop")
    => JoinedDeltas(streaming.chunks) =
         (IF streaming.content.some THEN streaming.content.text ELSE <<>>)

\* C31: when a provider request of solve fails with an HTTP or protocol
\* error, the chain ends with stop reason ERROR and status failed, its last
\* step is an error step, and no provider request is made after the failure.
C31_ProviderErrorEndsChain ==
    provider_failure.kind \in ProviderErrors =>
        /\ pc = "done"
        /\ stop_reason = "error"
        /\ result.returned /\ result.stop_reason = "error"
        /\ chain_status = "failed"
        /\ steps # <<>>
        /\ steps[Len(steps)].step_type = "error"
        /\ provider_requests = provider_failure.requests

\* the second provider request of a chain failed, after a turn of tool calls
C31_Witness ==
    /\ provider_failure.kind = "http_error"
    /\ provider_failure.requests = 2
    /\ \E k \in 1..Len(steps) : steps[k].step_type = "tool_result"

\* the execute_tool call that returns in this step, if one does: a call of
\* the running execute_multiple, or the one execute_from_llm_call makes
ToolCallReturns ==
    \/ Len(exec_order') = Len(exec_order) + 1
    \/ /\ exec_returned' # exec_returned
       /\ exec_returned'.via = "execute_from_llm_call"
       /\ exec_returned'.results[1].error # "parse_failed"

ReturnedRecord ==
    IF Len(exec_order') = Len(exec_order) + 1
    THEN LET i == exec_order'[Len(exec_order')]
         IN  [tool_name |-> exec_tasks[i].name,
              success |-> exec_tasks'[i].result.success,
              serial |-> exec_tasks[i].serial]
    ELSE [tool_name |-> exec_returned'.calls[1].name,
          success |-> exec_returned'.results[1].success,
          serial |-> exec_returned'.calls[1].serial]

\* history `after` is history `before` with exactly the one record appended,
\* less the oldest records that the size cap drops
OneRecordAppended(before, after, record) ==
    /\ after # <<>>
    /\ after[Len(after)] = record
    /\ Len(after) = IF Len(before) < max_history_size THEN Len(before) + 1
                    ELSE max_history_size
    /\ \A k \in 1..(Len(after) - 1) :
          after[k] = before[Len(before) - (Len(after) - 1) + k]

\* C32: every execute_tool call that returns appends exactly one
\* ExecutionRecord to the history, whatever its outcome (unknown tool,
\* validation miss, timeout, tool exception, success).
C32_OneRecordPerCall ==
    [][ToolCallReturns => OneRecordAppended(exec_history, exec_history', ReturnedRecord)]_vars

\* one call of each outcome has returned and the history is at its cap
C32_Witness ==
    /\ Len(exec_tasks) = 2
    /\ exec_tasks[1].done /\ exec_tasks[1].outcome = "timeout"
    /\ exec_tasks[2].done /\ exec_tasks[2].outcome = "not_found"
    /\ Len(exec_history) = max_history_size
    /\ exec_history[Len(exec_history)].serial \in
          {exec_tasks[1].serial, exec_tasks[2].serial}
    /\ ~exec_history[Len(exec_history)].success

\* a call returns a failed result to its caller in this step
FailureReturned ==
    \/ /\ Len(exec_order') = Len(exec_order) + 1
       /\ ~exec_tasks'[exec_order'[Len(exec_order')]].result.success
    \/ /\ exec_returned' # exec_returned
       /\ exec_returned'.via = "execute_from_llm_call"
       /\ ~exec_returned'.results[1].success

FailedSerial ==
    IF Len(exec_order') = Len(exec_order) + 1
    THEN exec_tasks[exec_order'[Len(exec_order')]].serial
    ELSE exec_returned'.calls[1].serial

\* C33: every tool failure the executor returns to its caller, including an
\* argument-decode failure in execute_from_llm_call, is recorded in the
\* history and counted as a failed execution by get_statistics.
C33_FailuresRecordedAndCounted ==
    [][FailureReturned =>
          /\ exec_history' # <<>>
          /\ exec_history'[Len(exec_history')].serial = FailedSerial
          /\ ~exec_history'[Len(exec_history')].success
          /\ get_statistics(exec_history').failed >= 1]_vars

\* C36: when several execute_tool calls run concurrently on one executor,
\* every completed call's record is present in the history exactly once (up
\* to the cap): no record is lost or duplicated by interleaving.  The calls
\* completed since the history was last cleared are those of exec_log; the
\* latest max_history_size of them are in the history once each, the older
\* ones not at all.
C36_NoRecordLostOrDuplicated ==
    \A k \in 1..Len(exec_log) :
        Cardinality({j \in 1..Len(exec_history) :
                        exec_history[j].serial = exec_log[k].serial})
            = IF Len(exec_log) - k < max_history_size THEN 1 ELSE 0

\* both calls of a parallel batch are in flight together, the second completed
\* first, and with an earlier record the cap has been passed
C36_Witness ==
    /\ exec_parallel
    /\ Len(exec_tasks) >= 2
    /\ Len(exec_order) >= 2
    /\ exec_order[1] > exec_order[2]
    /\ Len(exec_log) > max_history_size
    /\ \A i \in {exec_order[1], exec_order[2]} :
          \E j \in 1..Len(exec_history) : exec_history[j].serial = exec_tasks[i].serial

\* the tool calls of the latest assistant message of msgs that no tool
\* message after that assistant message answers
UnansweredCalls(msgs) ==
    IF \A k \in 1..Len(msgs) : msgs[k].role # "assistant" THEN <<>>
    ELSE LET last == CHOOSE k \in 1..Len(msgs) :
                        /\ msgs[k].role = "assistant"
                        /\ \A j \in (k + 1)..Len(msgs) : msgs[j].role # "assistant"
             Open(tc) == \A j \in (last + 1)..Len(msgs) :
                            ~(msgs[j].role = "tool" /\ msgs[j].tool_call_id = tc.id)
         IN  SelectSeq(msgs[last].tool_calls, Open)

\* C34: get_tool_calls_pending returns exactly the tool calls of the latest
\* assistant message that have not been answered by a tool message appended
\* after that assistant message; a tool message of an earlier turn carrying
\* the same id does not count as an answer.
C34_PendingAreTheUnanswered ==
    get_tool_calls_pending(cm_messages) = UnansweredCalls(cm_messages)

\* C35: clear(keep_system=True) removes every non-system message and retains
\* the system message whenever one is in the log, whether it was supplied to
\* the constructor or added later by add_system_message.
C35_ClearKeepsSystemMessage ==
    cm_last_op.op = "clear_keep_system" =>
        /\ SelectSeq(cm_messages, IsNotSystem) = <<>>
        /\ SelectSeq(cm_messages, IsSystem) = SelectSeq(cm_last_op.before, IsSystem)

\* position of the latest assistant message of msgs (0 when there is none)
LatestAssistant(msgs) ==
    IF \A k \in 1..Len(msgs) : msgs[k].role # "assistant" THEN 0
    ELSE CHOOSE k \in 1..Len(msgs) :
            /\ msgs[k].role = "assistant"
            /\ \A j \in (k + 1)..Len(msgs) : msgs[j].role # "assistant"

\* the tool messages after position k that carry the id
AnswersAfter(msgs, k, id) ==
    {j \in (k + 1)..Len(msgs) : msgs[j].role = "tool" /\ msgs[j].tool_call_id = id}

\* C37: at the start of every loop iteration of solve after the first, the
\* conversation has no outstanding tool call: each tool call of the latest
\* assistant message has exactly one tool message with its id appended after it.
C37_NoOutstandingCallAtLoopHead ==
    (pc = "loop_head" /\ iteration > 0 /\ ~LoopExhausted(iteration)) =>
        LET last == LatestAssistant(conv)
        IN  last > 0 =>
               \A c \in 1..Len(conv[last].tool_calls) :
                  Cardinality(AnswersAfter(conv, last, conv[last].tool_calls[c].id)) = 1

\* a second iteration starts after a turn of several calls, one of which
\* raised, whose ids an earlier tool message could not have answered
C37_Witness ==
    /\ pc = "loop_head" /\ iteration > 0 /\ ~LoopExhausted(iteration)
    /\ LatestAssistant(conv) > 0
    /\ Len(conv[LatestAssistant(conv)].tool_calls) >= 2
    /\ \E j \in (LatestAssistant(conv) + 1)..Len(conv) :
          conv[j].role = "tool" /\ conv[j].content = Some(ToolErrorText)
    /\ \E j \in (LatestAssistant(conv) + 1)..Len(conv) :
          conv[j].role = "tool" /\ conv[j].content = Some(ToolResultText)

\* C38: when two tasks each enter and exit the HTTP scope of the same adapter
\* instance with overlapping lifetimes, one task's scope exit does not close
\* the client that the other task uses for requests made inside its own
\* still-open scope: such a request is answered.
C38_OtherScopeKeepsItsClient ==
    shared.last.in_scope => shared.last.outcome = "response"

C40_CategoryListsNameRegisteredToolsOnce ==
    \A c \in DOMAIN registry.categories :
        \A k \in 1..Len(registry.categories[c]) :
            /\ registry.categories[c][k] \in DOMAIN registry.tools
            /\ \A j \in 1..Len(registry.categories[c]) :
                  registry.categories[c][j] = registry.categories[c][k] => j = k

\* a tool registered again with override under the category that already
\* lists it, next to another tool, after an unregister emptied a list
C40_Witness ==
    /\ registry.last.op = "register" /\ registry.last.override /\ registry.last.returned
    /\ Truthy(registry.last.category)
    /\ Len(registry.categories[registry.last.category.text]) = 2
    /\ registry.categories[registry.last.category.text][1] = registry.last.tool_name
    /\ \E c \in DOMAIN registry.categories : registry.categories[c] = <<>>
====
